---------------------------- MODULE Spec2Model ----------------------------
(***************************************************************************)
(* A model of sjson (src/sjson.go): setting one value inside a JSON        *)
(* document addressed by a dotted path.                                    *)
(*                                                                         *)
(* Documents, paths and values are byte strings.  Offsets are the 0-based  *)
(* offsets of the Go source: At(s, i) is s[i], Slice(s, lo, hi) is         *)
(* s[lo:hi].  The lookups of github.com/tidwall/gjson that sjson.go calls  *)
(* (gjson.Get, gjson.Parse, Result.Array) are modelled by the operators    *)
(* whose names start with gjson.                                           *)
(***************************************************************************)
EXTENDS Integers, Sequences, FiniteSets, TLC

VARIABLES json, call, res

vars == <<json, call, res>>

(***************************************************************************)
(* Bytes                                                                   *)
(***************************************************************************)
At(s, i) == SubSeq(s, i + 1, i + 1)

Slice(s, lo, hi) == SubSeq(s, lo + 1, hi)

From(s, lo) == SubSeq(s, lo + 1, Len(s))

\* The printable ASCII bytes 0x20..0x5f and 0x61..0x7e in byte order.
AsciiLow == " !\"#$%&'()*+,-./0123456789:;<=>?@ABCDEFGHIJKLMNOPQRSTUVWXYZ[\\]^_"

AsciiHigh == "abcdefghijklmnopqrstuvwxyz{|}~"

Bytes ==
    {At(AsciiLow, i) : i \in 0..(Len(AsciiLow) - 1)}
        \cup {At(AsciiHigh, i) : i \in 0..(Len(AsciiHigh) - 1)}
        \cup {"\t", "\n"}

\* The value of a byte.
ByteCode ==
    [c \in Bytes |->
        IF c = "\t" THEN 9
        ELSE IF c = "\n" THEN 10
        ELSE IF \E i \in 0..(Len(AsciiLow) - 1) : At(AsciiLow, i) = c
             THEN 32 + (CHOOSE i \in 0..(Len(AsciiLow) - 1) : At(AsciiLow, i) = c)
             ELSE 97 + (CHOOSE i \in 0..(Len(AsciiHigh) - 1) : At(AsciiHigh, i) = c)]

Code(c) == ByteCode[c]

\* '0' <= c && c <= '9'
DigitBytes == {b \in Bytes : ByteCode[b] >= 48 /\ ByteCode[b] <= 57}

IsDigit(c) == c \in DigitBytes

\* c <= ' '
SpaceBytes == {b \in Bytes : ByteCode[b] <= 32}

IsSpace(c) == c \in SpaceBytes

(***************************************************************************)
(* parsePath: one segment of the path.                                     *)
(***************************************************************************)
ErrEmptyPath == "path cannot be empty"

ErrWildcard == "wildcard characters not allowed in path"

ErrArrayAccess == "array access character not allowed in path"

ErrNotObjectOrArray == "json must be an object or array"

ErrArrayKey == "array key must be numeric"

pathResult(part, path, force, more, err) ==
    [part |-> part, path |-> path, force |-> force, more |-> more, err |-> err]

RECURSIVE parsePathEscapedKeepsReserved(_, _, _, _)

\* parsePathEscaped with a slip: after an escape, a reserved byte that no
\* backslash escapes is taken into the key.
parsePathEscapedKeepsReserved(path, force, epart, i) ==
    IF i >= Len(path) THEN pathResult(epart, "", force, FALSE, "")
    ELSE IF At(path, i) = "\\"
         THEN parsePathEscapedKeepsReserved(path, force,
                  IF i + 1 < Len(path) THEN epart \o At(path, i + 1) ELSE epart,
                  i + 2)
    ELSE IF At(path, i) = "."
         THEN pathResult(epart, From(path, i + 1), force, TRUE, "")
    ELSE parsePathEscapedKeepsReserved(path, force, epart \o At(path, i), i + 1)

RECURSIVE parsePathEscaped(_, _, _, _)

\* The escape mode of parsePath: epart accumulates the unescaped key.
parsePathEscaped(path, force, epart, i) ==
    IF i >= Len(path) THEN pathResult(epart, "", force, FALSE, "")
    ELSE IF At(path, i) = "\\"
         THEN parsePathEscaped(path, force,
                  IF i + 1 < Len(path) THEN epart \o At(path, i + 1) ELSE epart,
                  i + 2)
    ELSE IF At(path, i) = "."
         THEN pathResult(epart, From(path, i + 1), force, TRUE, "")
    ELSE IF At(path, i) \in {"*", "?"}
         THEN pathResult("", "", force, FALSE, ErrWildcard)
    ELSE IF At(path, i) = "#"
         THEN pathResult("", "", force, FALSE, ErrArrayAccess)
    ELSE parsePathEscaped(path, force, epart \o At(path, i), i + 1)

RECURSIVE parsePathScan(_, _, _)

\* parsePathScan with a slip: the backslash is dropped and the byte after
\* it is read as any other byte, so an escaped dot ends the segment.
parsePathScanDropsBackslash(path, force, i) ==
    IF i >= Len(path) THEN pathResult(path, "", force, FALSE, "")
    ELSE IF At(path, i) = "."
         THEN pathResult(Slice(path, 0, i), From(path, i + 1), force, TRUE, "")
    ELSE IF At(path, i) \in {"*", "?"}
         THEN pathResult("", "", force, FALSE, ErrWildcard)
    ELSE IF At(path, i) = "#"
         THEN pathResult("", "", force, FALSE, ErrArrayAccess)
    ELSE IF At(path, i) = "\\"
         THEN IF i + 1 < Len(path)
              THEN parsePathEscaped(path, force, Slice(path, 0, i), i + 1)
              ELSE pathResult(Slice(path, 0, i), "", force, FALSE, "")
    ELSE parsePathScan(path, force, i + 1)

\* The main loop of parsePath, at index i of the path (leading colon removed).
parsePathScan(path, force, i) ==
    IF i >= Len(path) THEN pathResult(path, "", force, FALSE, "")
    ELSE IF At(path, i) = "."
         THEN pathResult(Slice(path, 0, i), From(path, i + 1), force, TRUE, "")
    ELSE IF At(path, i) \in {"*", "?"}
         THEN pathResult("", "", force, FALSE, ErrWildcard)
    ELSE IF At(path, i) = "#"
         THEN pathResult("", "", force, FALSE, ErrArrayAccess)
    ELSE IF At(path, i) = "\\"
         THEN IF i + 1 < Len(path)
              THEN parsePathEscaped(path, force,
                       Slice(path, 0, i) \o At(path, i + 1), i + 2)
              ELSE pathResult(Slice(path, 0, i), "", force, FALSE, "")
    ELSE parsePathScan(path, force, i + 1)

parsePath(path) ==
    IF Len(path) > 0 /\ At(path, 0) = ":"
    THEN parsePathScan(From(path, 1), TRUE, 0)
    ELSE parsePathScan(path, FALSE, 0)

\* The loop of set that parses every segment before any byte is written.
RECURSIVE parsePaths(_)

\* The segments after r, when they parsed as rest.
parsePathsAppend(r, rest) ==
    IF rest.err # "" THEN rest ELSE [paths |-> <<r>> \o rest.paths, err |-> ""]

\* The segments from r, the segment parsed last.
parsePathsFrom(r) ==
    IF r.err # "" THEN [paths |-> <<>>, err |-> r.err]
    ELSE IF r.more THEN parsePathsAppend(r, parsePaths(r.path))
    ELSE [paths |-> <<r>>, err |-> ""]

parsePaths(path) == parsePathsFrom(parsePath(path))

(***************************************************************************)
(* atoui, appendRepeat, trim                                               *)
(***************************************************************************)
RECURSIVE atouiDigits(_, _, _)
atouiDigits(part, i, n) ==
    IF i >= Len(part) THEN [n |-> n, ok |-> TRUE]
    ELSE IF ~IsDigit(At(part, i)) THEN [n |-> 0, ok |-> FALSE]
    ELSE atouiDigits(part, i + 1, n * 10 + (Code(At(part, i)) - 48))

\* atoui with a slip: a key without a digit is not a number.
atouiNeedsDigit(r) ==
    IF r.force \/ r.part = "" THEN [n |-> 0, ok |-> FALSE]
    ELSE atouiDigits(r.part, 0, 0)

\* atoui: a key of digits only, the key of no byte included, is a number.
atoui(r) ==
    IF r.force THEN [n |-> 0, ok |-> FALSE] ELSE atouiDigits(r.part, 0, 0)

RECURSIVE appendRepeat(_, _, _)
appendRepeat(buf, s, n) ==
    IF n <= 0 THEN buf ELSE appendRepeat(buf \o s, s, n - 1)

RECURSIVE trimLeft(_)
trimLeft(s) ==
    IF Len(s) > 0 /\ IsSpace(At(s, 0)) THEN trimLeft(From(s, 1)) ELSE s

RECURSIVE trimRight(_)
trimRight(s) ==
    IF Len(s) > 0 /\ IsSpace(At(s, Len(s) - 1))
    THEN trimRight(Slice(s, 0, Len(s) - 1))
    ELSE s

trim(s) == trimRight(trimLeft(s))

(***************************************************************************)
(* appendStringify.  jsongo.Marshal of a string is modelled for the bytes  *)
(* of the model: it quotes the text and escapes the quote, the backslash,  *)
(* the control bytes and the HTML bytes < > &.                             *)
(***************************************************************************)
MarshalByte(c) ==
    IF c = "\"" THEN "\\\""
    ELSE IF c = "\\" THEN "\\\\"
    ELSE IF c = "\n" THEN "\\n"
    ELSE IF c = "\t" THEN "\\t"
    ELSE IF c = "<" THEN "\\u003c"
    ELSE IF c = ">" THEN "\\u003e"
    ELSE IF c = "&" THEN "\\u0026"
    ELSE c

RECURSIVE MarshalBytes(_, _)
MarshalBytes(s, i) ==
    IF i >= Len(s) THEN "" ELSE MarshalByte(At(s, i)) \o MarshalBytes(s, i + 1)

MarshalString(s) == "\"" \o MarshalBytes(s, 0) \o "\""

\* s[i] < ' ' || s[i] > 0x7f || s[i] == '"'
NeedsMarshal(c) == Code(c) < 32 \/ Code(c) > 127 \/ c = "\""

appendStringify(buf, s) ==
    IF \E i \in 0..(Len(s) - 1) : NeedsMarshal(At(s, i))
    THEN buf \o MarshalString(s)
    ELSE buf \o "\"" \o s \o "\""

(***************************************************************************)
(* appendBuild: the fragment for the segments that do not exist yet.       *)
(***************************************************************************)
RECURSIVE appendBuild(_, _, _, _, _)

\* appendBuildValue with a slip: the null padding of a new array is left
\* out.
appendBuildValueNoPadding(buf, a, paths, raw, stringify) ==
    IF Len(paths) > 1
    THEN IF a.ok
         THEN appendBuild(buf \o "[", TRUE, Tail(paths), raw, stringify) \o "]"
         ELSE appendBuild(buf \o "{", FALSE, Tail(paths), raw, stringify) \o "}"
    ELSE IF stringify THEN appendStringify(buf, raw) ELSE buf \o raw

\* appendBuild after the key of paths[1] is written: the nested container
\* for paths[2], whose atoui is a, or the value.
appendBuildValue(buf, a, paths, raw, stringify) ==
    IF Len(paths) > 1
    THEN IF a.ok
         THEN appendBuild(appendRepeat(buf \o "[", "null,", a.n),
                          TRUE, Tail(paths), raw, stringify) \o "]"
         ELSE appendBuild(buf \o "{", FALSE, Tail(paths), raw, stringify) \o "}"
    ELSE IF stringify THEN appendStringify(buf, raw) ELSE buf \o raw

appendBuild(buf, array, paths, raw, stringify) ==
    appendBuildValue(
        IF ~array THEN appendStringify(buf, paths[1].part) \o ":" ELSE buf,
        IF Len(paths) > 1 THEN atoui(paths[2]) ELSE [n |-> 0, ok |-> FALSE],
        paths, raw, stringify)

(***************************************************************************)
(* gjson: the value scanners.  Each takes the document and the offset of   *)
(* the value's first byte and returns the offset after the value and the   *)
(* value's raw text.                                                       *)
(***************************************************************************)
\* The offset of the quote that closes a string whose text starts at i, or
\* Len(json) when the string is not closed.
RECURSIVE gjsonStringEnd(_, _)
gjsonStringEnd(json_, i) ==
    IF i >= Len(json_) THEN Len(json_)
    ELSE IF At(json_, i) = "\"" THEN i
    ELSE IF At(json_, i) = "\\" THEN gjsonStringEnd(json_, i + 2)
    ELSE gjsonStringEnd(json_, i + 1)

\* parseString, called with i after the opening quote.
gjsonStringTo(json_, i, e) ==
    IF e < Len(json_)
    THEN [i |-> e + 1, val |-> Slice(json_, i - 1, e + 1), ok |-> TRUE]
    ELSE [i |-> Len(json_), val |-> From(json_, i - 1), ok |-> FALSE]

gjsonParseString(json_, i) == gjsonStringTo(json_, i, gjsonStringEnd(json_, i))

RECURSIVE gjsonNumberEnd(_, _)
gjsonNumberEnd(json_, i) ==
    IF i >= Len(json_) THEN Len(json_)
    ELSE IF IsSpace(At(json_, i)) \/ At(json_, i) \in {",", "]", "}"} THEN i
    ELSE gjsonNumberEnd(json_, i + 1)

\* The value from offset i to offset e.
gjsonValueTo(json_, i, e) == [i |-> e, val |-> Slice(json_, i, e), ok |-> TRUE]

gjsonParseNumber(json_, i) == gjsonValueTo(json_, i, gjsonNumberEnd(json_, i + 1))

RECURSIVE gjsonLiteralEnd(_, _)
gjsonLiteralEnd(json_, i) ==
    IF i >= Len(json_) THEN Len(json_)
    ELSE IF Code(At(json_, i)) < 97 \/ Code(At(json_, i)) > 122 THEN i
    ELSE gjsonLiteralEnd(json_, i + 1)

gjsonParseLiteral(json_, i) == gjsonValueTo(json_, i, gjsonLiteralEnd(json_, i + 1))

\* parseSquash: the offset after the bracket that closes the container
\* opened before i, skipping strings and counting nested brackets.
RECURSIVE gjsonSquashEnd(_, _, _)
gjsonSquashEnd(json_, i, depth) ==
    IF i >= Len(json_) THEN Len(json_)
    ELSE IF At(json_, i) = "\""
         THEN gjsonSquashEnd(json_, gjsonStringEnd(json_, i + 1) + 1, depth)
    ELSE IF At(json_, i) \in {"{", "["}
         THEN gjsonSquashEnd(json_, i + 1, depth + 1)
    ELSE IF At(json_, i) \in {"}", "]"}
         THEN IF depth = 1 THEN i + 1
              ELSE gjsonSquashEnd(json_, i + 1, depth - 1)
    ELSE gjsonSquashEnd(json_, i + 1, depth)

gjsonParseSquash(json_, i) == gjsonValueTo(json_, i, gjsonSquashEnd(json_, i + 1, 1))

\* The bytes that start a value in parseObject and parseArray.
IsValueStart(c) ==
    c \in {"\"", "{", "[", "n", "t", "f", "-"} \/ IsDigit(c)

\* The value that starts at offset i.
gjsonParseValue(json_, i) ==
    IF At(json_, i) = "\""
    THEN gjsonParseString(json_, i + 1)
    ELSE IF At(json_, i) \in {"{", "["}
         THEN gjsonParseSquash(json_, i)
    ELSE IF At(json_, i) \in {"n", "t", "f"}
         THEN gjsonParseLiteral(json_, i)
    ELSE gjsonParseNumber(json_, i)

(***************************************************************************)
(* gjson: the path of a lookup.  sjson hands gjson.Get one segment's key,  *)
(* already unescaped by parsePath; gjson parses it as a path of its own:   *)
(* a dot in it separates two keys and a backslash escapes the next byte.   *)
(* The keys of the model hold none of the bytes | # * ? @ ! that gjson     *)
(* reads as queries, wildcards and modifiers.                              *)
(***************************************************************************)
gjsonPathResult(part, path, more) ==
    [part |-> part, path |-> path, more |-> more]

RECURSIVE gjsonObjectPathEscaped(_, _, _)
gjsonObjectPathEscaped(path, epart, i) ==
    IF i >= Len(path) THEN gjsonPathResult(epart, "", FALSE)
    ELSE IF At(path, i) = "\\"
         THEN gjsonObjectPathEscaped(path,
                  IF i + 1 < Len(path) THEN epart \o At(path, i + 1) ELSE epart,
                  i + 2)
    ELSE IF At(path, i) = "."
         THEN gjsonPathResult(epart, From(path, i + 1), TRUE)
    ELSE gjsonObjectPathEscaped(path, epart \o At(path, i), i + 1)

RECURSIVE gjsonObjectPathScan(_, _)
gjsonObjectPathScan(path, i) ==
    IF i >= Len(path) THEN gjsonPathResult(path, "", FALSE)
    ELSE IF At(path, i) = "."
         THEN gjsonPathResult(Slice(path, 0, i), From(path, i + 1), TRUE)
    ELSE IF At(path, i) = "\\"
         THEN IF i + 1 < Len(path)
              THEN gjsonObjectPathEscaped(path,
                       Slice(path, 0, i) \o At(path, i + 1), i + 2)
              ELSE gjsonPathResult(Slice(path, 0, i), "", FALSE)
    ELSE gjsonObjectPathScan(path, i + 1)

\* parseObjectPath
gjsonObjectPath(path) == gjsonObjectPathScan(path, 0)

\* parseArrayPath: no escapes, the key ends at the first dot.
RECURSIVE gjsonArrayPathScan(_, _)
gjsonArrayPathScan(path, i) ==
    IF i >= Len(path) THEN gjsonPathResult(path, "", FALSE)
    ELSE IF At(path, i) = "."
         THEN gjsonPathResult(Slice(path, 0, i), From(path, i + 1), TRUE)
    ELSE gjsonArrayPathScan(path, i + 1)

gjsonArrayPath(path) == gjsonArrayPathScan(path, 0)

\* parseUint of an array key: -1 when the key is empty or not all digits.
gjsonPartIndex(part) ==
    IF Len(part) = 0 \/ ~atouiDigits(part, 0, 0).ok THEN -1
    ELSE atouiDigits(part, 0, 0).n

\* unescape of a member key that holds a backslash.
RECURSIVE gjsonUnescape(_, _)
gjsonUnescape(s, i) ==
    IF i >= Len(s) THEN ""
    ELSE IF Code(At(s, i)) < 32 THEN ""
    ELSE IF At(s, i) = "\\"
         THEN IF i + 1 >= Len(s) THEN ""
              ELSE IF At(s, i + 1) \in {"\\", "/", "\""}
                   THEN At(s, i + 1) \o gjsonUnescape(s, i + 2)
              ELSE IF At(s, i + 1) = "n" THEN "\n" \o gjsonUnescape(s, i + 2)
              ELSE IF At(s, i + 1) = "t" THEN "\t" \o gjsonUnescape(s, i + 2)
              ELSE ""
    ELSE At(s, i) \o gjsonUnescape(s, i + 1)

(***************************************************************************)
(* gjson: parseObject and parseArray, the search of gjson.Get.             *)
(***************************************************************************)
gjsonNotFound(i) == [i |-> i, hit |-> FALSE, Index |-> 0, Raw |-> ""]

gjsonFound(i, start, raw) == [i |-> i, hit |-> TRUE, Index |-> start, Raw |-> raw]

\* The next quote or closing brace at or after i: where a member key starts
\* or the object ends.
RECURSIVE gjsonKeyStart(_, _)
gjsonKeyStart(json_, i) ==
    IF i >= Len(json_) THEN Len(json_)
    ELSE IF At(json_, i) \in {"\"", "}"} THEN i
    ELSE gjsonKeyStart(json_, i + 1)

\* The next byte at or after i that starts a value; every other byte is
\* skipped.
RECURSIVE gjsonValueStart(_, _)
gjsonValueStart(json_, i) ==
    IF i >= Len(json_) THEN Len(json_)
    ELSE IF IsValueStart(At(json_, i)) THEN i
    ELSE gjsonValueStart(json_, i + 1)

\* The same in an array, where a closing bracket ends the search.
RECURSIVE gjsonElementStart(_, _)
gjsonElementStart(json_, i) ==
    IF i >= Len(json_) THEN Len(json_)
    ELSE IF IsValueStart(At(json_, i)) \/ At(json_, i) = "]" THEN i
    ELSE gjsonElementStart(json_, i + 1)

RECURSIVE gjsonParseObject(_, _, _)
RECURSIVE gjsonParseArray(_, _, _, _)

\* The search goes on inside the container that starts at v.
gjsonDescend(json_, v, path) ==
    IF At(json_, v) = "{"
    THEN gjsonParseObject(json_, v + 1, path)
    ELSE gjsonParseArray(json_, v + 1, path, 0)

\* A member key matches the key of the path (pmatch).
gjsonKeyMatches(rp, key) ==
    IF \E j \in 0..(Len(key) - 1) : At(key, j) = "\\"
    THEN rp.part = gjsonUnescape(key, 0)
    ELSE rp.part = key

\* parseObject after the value val of a member, which started at v.
gjsonObjectAfterValue(json_, v, val, hit, path) ==
    IF ~val.ok THEN gjsonNotFound(val.i)
    ELSE IF hit THEN gjsonFound(val.i, v, val.val)
    ELSE gjsonParseObject(json_, val.i, path)

\* parseObject after the search inside a matching member returned r.
gjsonObjectAfterNested(json_, r, path) ==
    IF r.hit THEN r ELSE gjsonParseObject(json_, r.i, path)

\* parseObject at the value of a member, which starts at v.
gjsonObjectAtValue(json_, v, pmatch, rp, path) ==
    IF v >= Len(json_) THEN gjsonNotFound(v)
    ELSE IF pmatch /\ rp.more /\ At(json_, v) \in {"{", "["}
         THEN gjsonObjectAfterNested(json_, gjsonDescend(json_, v, rp.path), path)
    ELSE gjsonObjectAfterValue(json_, v, gjsonParseValue(json_, v),
                               pmatch /\ ~rp.more, path)

\* parseObject after the key string ks of a member.
gjsonObjectAfterKey(json_, ks, rp, path) ==
    IF ~ks.ok THEN gjsonNotFound(ks.i)
    ELSE gjsonObjectAtValue(json_, gjsonValueStart(json_, ks.i),
                            gjsonKeyMatches(rp, Slice(ks.val, 1, Len(ks.val) - 1)),
                            rp, path)

\* parseObject at k, the quote that opens a key or the closing brace.
gjsonObjectAtKey(json_, k, path) ==
    IF k >= Len(json_) THEN gjsonNotFound(k)
    ELSE IF At(json_, k) = "}" THEN gjsonNotFound(k + 1)
    ELSE gjsonObjectAfterKey(json_, gjsonParseString(json_, k + 1),
                             gjsonObjectPath(path), path)

\* parseObject, with i after the opening brace or after the last member read.
gjsonParseObject(json_, i, path) ==
    gjsonObjectAtKey(json_, gjsonKeyStart(json_, i), path)

\* parseArray after the value val of element h, which started at v.
gjsonArrayAfterValue(json_, v, val, hit, path, h) ==
    IF ~val.ok THEN gjsonNotFound(val.i)
    ELSE IF hit THEN gjsonFound(val.i, v, val.val)
    ELSE gjsonParseArray(json_, val.i, path, h + 1)

\* parseArray after the search inside the matching element h returned r.
gjsonArrayAfterNested(json_, r, path, h) ==
    IF r.hit THEN r ELSE gjsonParseArray(json_, r.i, path, h + 1)

\* parseArray at v, where element h starts or the array ends.
gjsonArrayAtValue(json_, v, pmatch, rp, path, h) ==
    IF v >= Len(json_) THEN gjsonNotFound(Len(json_) + 1)
    ELSE IF At(json_, v) = "]" THEN gjsonNotFound(v + 1)
    ELSE IF pmatch /\ rp.more /\ At(json_, v) \in {"{", "["}
         THEN gjsonArrayAfterNested(json_, gjsonDescend(json_, v, rp.path), path, h)
    ELSE gjsonArrayAfterValue(json_, v, gjsonParseValue(json_, v),
                              pmatch /\ ~rp.more, path, h)

gjsonArrayElement(json_, i, rp, path, h) ==
    gjsonArrayAtValue(json_, gjsonElementStart(json_, i),
                      gjsonPartIndex(rp.part) = h, rp, path, h)

\* parseArray, with i after the opening bracket or after the last element
\* read, and h the index of the next element.
gjsonParseArray(json_, i, path, h) ==
    gjsonArrayElement(json_, i, gjsonArrayPath(path), path, h)

\* The first brace or bracket at or after i.
RECURSIVE gjsonContainerStart(_, _)
gjsonContainerStart(json_, i) ==
    IF i >= Len(json_) THEN Len(json_)
    ELSE IF At(json_, i) \in {"{", "["} THEN i
    ELSE gjsonContainerStart(json_, i + 1)

\* gjson.Get: Index is the offset of the value found and Raw its text;
\* Index 0 and an empty Raw when nothing is found.
gjsonResult(json_, r) ==
    IF r.hit /\ Len(r.Raw) > 0 /\ r.Index < Len(json_)
    THEN [Index |-> r.Index, Raw |-> r.Raw]
    ELSE [Index |-> 0, Raw |-> ""]

gjsonGetFrom(json_, s, path) ==
    IF s >= Len(json_) THEN gjsonResult(json_, gjsonNotFound(s))
    ELSE gjsonResult(json_, gjsonDescend(json_, s, path))

gjsonGet(json_, path) == gjsonGetFrom(json_, gjsonContainerStart(json_, 0), path)

\* gjson.Parse: the type of the document and, for an object or an array,
\* Raw: the document from its first brace or bracket to its end.
RECURSIVE gjsonParseAt(_, _)
gjsonParseAt(json_, i) ==
    IF i >= Len(json_) THEN [Type |-> "Null", Raw |-> ""]
    ELSE IF At(json_, i) \in {"{", "["}
         THEN [Type |-> "JSON", Raw |-> From(json_, i)]
    ELSE IF IsSpace(At(json_, i)) THEN gjsonParseAt(json_, i + 1)
    ELSE IF At(json_, i) = "\"" THEN [Type |-> "String", Raw |-> From(json_, i)]
    ELSE IF At(json_, i) = "-" \/ IsDigit(At(json_, i))
         THEN [Type |-> "Number", Raw |-> gjsonParseNumber(json_, i).val]
    ELSE IF At(json_, i) \in {"n", "t", "f"}
         THEN [Type |-> "Literal", Raw |-> gjsonParseLiteral(json_, i).val]
    ELSE [Type |-> "Null", Raw |-> ""]

gjsonParse(json_) == gjsonParseAt(json_, 0)

\* Result.Array of an array: the raw text of each element.
RECURSIVE gjsonArrayFrom(_, _)
gjsonArrayFrom(raw, i) ==
    IF i >= Len(raw) THEN <<>>
    ELSE IF IsSpace(At(raw, i)) THEN gjsonArrayFrom(raw, i + 1)
    ELSE IF At(raw, i) \in {"]", "}"} THEN <<>>
    ELSE IF IsValueStart(At(raw, i))
         THEN <<gjsonParseValue(raw, i).val>>
                  \o gjsonArrayFrom(raw, i + Len(gjsonParseValue(raw, i).val))
    ELSE gjsonArrayFrom(raw, i + 1)

gjsonArray(raw) == gjsonArrayFrom(raw, 1)

(***************************************************************************)
(* appendRawPaths: the splice engine.  A result is the buffer and the      *)
(* error message; a failed call returns a nil buffer.                      *)
(***************************************************************************)
Done(buf) == [buf |-> buf, err |-> ""]

Failed(msg) == [buf |-> "", err |-> msg]

\* A slice or index expression of the engine that is out of range ends the
\* call with a panic of the runtime, which is neither a document nor an
\* error value.
ErrPanic == "panic: runtime error: index out of range"

Panicked == [buf |-> "", err |-> ErrPanic]

\* hasMember with a slip: whitespace after the opening byte is not skipped.
hasMemberAtOnce(raw, i) == i < Len(raw) /\ At(raw, i) \notin {"}", "]"}

\* The loop that decides whether the container already has a member.
RECURSIVE hasMember(_, _)
hasMember(raw, i) ==
    IF i >= Len(raw) THEN FALSE
    ELSE IF IsSpace(At(raw, i)) THEN hasMember(raw, i + 1)
    ELSE At(raw, i) \notin {"}", "]"}

\* The loop that writes the elements of the array again, comma separated.
RECURSIVE appendElements(_, _, _)
appendElements(buf, ress, i) ==
    IF i > Len(ress) THEN buf
    ELSE appendElements(buf \o (IF i > 1 THEN "," ELSE "") \o ress[i], ress, i + 1)

\* appendLast with a slip: the comma is written for an empty array too.
appendLastAlwaysComma(buf, t, comma, paths, raw, stringify) ==
    appendBuild(buf \o (IF At(t, Len(t) - 1) = "]" THEN Slice(t, 0, Len(t) - 1) ELSE t)
                    \o ",",
                TRUE, paths, raw, stringify) \o "]"

\* The append of the key -1: the array without its closing bracket, a
\* comma if it has elements, the fragment, the closing bracket.
appendLast(buf, t, comma, paths, raw, stringify) ==
    appendBuild(buf \o (IF At(t, Len(t) - 1) = "]" THEN Slice(t, 0, Len(t) - 1) ELSE t)
                    \o (IF comma THEN "," ELSE ""),
                TRUE, paths, raw, stringify) \o "]"

\* appendAtIndex with a slip: n nulls are written, not n - len(ress).
appendAtIndexPadsByIndex(buf, ress, n, comma, paths, raw, stringify) ==
    appendBuild(
        IF Len(ress) = 0
        THEN appendRepeat(appendElements(buf \o "[", ress, 1), "null,", n)
        ELSE appendRepeat(appendElements(buf \o "[", ress, 1), ",null", n)
                 \o (IF comma THEN "," ELSE ""),
        TRUE, paths, raw, stringify) \o "]"

\* The index n past the end: the elements ress again, the null padding, the
\* fragment.
appendAtIndex(buf, ress, n, comma, paths, raw, stringify) ==
    appendBuild(
        IF Len(ress) = 0
        THEN appendRepeat(appendElements(buf \o "[", ress, 1), "null,", n - Len(ress))
        ELSE appendRepeat(appendElements(buf \o "[", ress, 1), ",null", n - Len(ress))
                 \o (IF comma THEN "," ELSE ""),
        TRUE, paths, raw, stringify) \o "]"

\* appendInto with a slip: the member built for an object is put before
\* the closing brace, after the members the object has.
appendIntoMemberLast(buf, jsres, a, comma, paths, raw, stringify) ==
    IF jsres.Type # "JSON" THEN Failed(ErrNotObjectOrArray)
    ELSE IF Len(jsres.Raw) = 0 THEN Panicked
    ELSE IF At(jsres.Raw, 0) = "{"
         THEN Done(appendBuild(buf \o Slice(jsres.Raw, 0, Len(trim(jsres.Raw)) - 1)
                                   \o (IF comma THEN "," ELSE ""),
                               FALSE, paths, raw, stringify) \o "}")
    ELSE IF ~a.ok /\ ~(paths[1].part = "-1" /\ ~paths[1].force)
         THEN Failed(ErrArrayKey)
    ELSE IF ~a.ok
         THEN IF Len(trim(jsres.Raw)) = 0 THEN Panicked
              ELSE Done(appendLast(buf, trim(jsres.Raw), comma, paths, raw, stringify))
    ELSE Done(appendAtIndex(buf, gjsonArray(jsres.Raw), a.n, comma, paths, raw,
                            stringify))

\* The switch on the first byte of the parsed document jsres; a is atoui of
\* the key and comma says whether the container has a member.
appendInto(buf, jsres, a, comma, paths, raw, stringify) ==
    IF jsres.Type # "JSON" THEN Failed(ErrNotObjectOrArray)
    ELSE IF Len(jsres.Raw) = 0 THEN Panicked
    ELSE IF At(jsres.Raw, 0) = "{"
         THEN Done(appendBuild(buf \o "{", FALSE, paths, raw, stringify)
                       \o (IF comma THEN "," ELSE "") \o From(jsres.Raw, 1))
    ELSE IF ~a.ok /\ ~(paths[1].part = "-1" /\ ~paths[1].force)
         THEN Failed(ErrArrayKey)
    ELSE IF ~a.ok
         THEN IF Len(trim(jsres.Raw)) = 0 THEN Panicked
              ELSE Done(appendLast(buf, trim(jsres.Raw), comma, paths, raw, stringify))
    ELSE Done(appendAtIndex(buf, gjsonArray(jsres.Raw), a.n, comma, paths, raw,
                            stringify))

appendParsed(buf, jsres, a, paths, raw, stringify) ==
    appendInto(buf, jsres, a, hasMember(jsres.Raw, 1), paths, raw, stringify)

\* A blank document becomes [] for a numeric key and {} for any other key.
emptyDocument(jstr, numeric) ==
    IF \A i \in 0..(Len(jstr) - 1) : IsSpace(At(jstr, i))
    THEN (IF numeric THEN "[]" ELSE "{}")
    ELSE jstr

\* The segment was not located: the member or element is created.
appendMissing(buf, jstr, a, paths, raw, stringify) ==
    appendParsed(buf, gjsonParse(emptyDocument(jstr, a.ok)), a, paths, raw, stringify)

RECURSIVE appendRawPaths(_, _, _, _, _)

\* afterValue with a slip: the start of the located value, so the value
\* stays in the bytes copied after it.
afterValueAtStart(res0) == res0.Index

\* afterValue with a slip: one byte past the end of the located value.
afterValuePlusOne(res0) == res0.Index + Len(res0.Raw) + 1

\* The offset from which the bytes after the located value are copied.
afterValue(res0) == res0.Index + Len(res0.Raw)

\* The located value with the result r of the call for the next segments.
appendSpliced(r, suffix) ==
    IF r.err # "" THEN Failed(r.err) ELSE Done(r.buf \o suffix)

\* appendLocated with a slip: the bytes after the located value are taken
\* from the start of the value, so the old value stays behind the new one.
appendLocatedKeepsOldValue(buf, jstr, res0, paths, raw, stringify) ==
    IF res0.Index > 0
    THEN IF Len(paths) > 1
         THEN appendSpliced(
                  appendRawPaths(buf \o Slice(jstr, 0, res0.Index), res0.Raw,
                                 Tail(paths), raw, stringify),
                  From(jstr, res0.Index + Len(res0.Raw)))
         ELSE Done((IF stringify
                    THEN appendStringify(buf \o Slice(jstr, 0, res0.Index), raw)
                    ELSE buf \o Slice(jstr, 0, res0.Index) \o raw)
                       \o From(jstr, res0.Index))
    ELSE appendMissing(buf, jstr, atoui(paths[1]), paths, raw, stringify)

\* appendRawPaths after the lookup of paths[1] returned res0.
appendLocated(buf, jstr, res0, paths, raw, stringify) ==
    IF res0.Index > 0
    THEN IF res0.Index > Len(jstr) \/ afterValue(res0) > Len(jstr) THEN Panicked
         ELSE IF Len(paths) > 1
         THEN appendSpliced(
                  appendRawPaths(buf \o Slice(jstr, 0, res0.Index), res0.Raw,
                                 Tail(paths), raw, stringify),
                  From(jstr, afterValue(res0)))
         ELSE Done((IF stringify
                    THEN appendStringify(buf \o Slice(jstr, 0, res0.Index), raw)
                    ELSE buf \o Slice(jstr, 0, res0.Index) \o raw)
                       \o From(jstr, afterValue(res0)))
    ELSE appendMissing(buf, jstr, atoui(paths[1]), paths, raw, stringify)

appendRawPaths(buf, jstr, paths, raw, stringify) ==
    appendLocated(buf, jstr, gjsonGet(jstr, paths[1].part), paths, raw, stringify)

\* The depth of the calls of appendRawPaths: one more call for every
\* segment that is located and has a segment after it.
RECURSIVE appendRawPathsDepth(_, _)

appendLocatedDepth(res0, paths) ==
    IF res0.Index > 0 /\ Len(paths) > 1
    THEN 1 + appendRawPathsDepth(res0.Raw, Tail(paths))
    ELSE 1

appendRawPathsDepth(jstr, paths) ==
    appendLocatedDepth(gjsonGet(jstr, paths[1].part), paths)

\* The depth of the calls of appendBuild: one more call for every segment
\* after the first.
RECURSIVE appendBuildDepth(_)
appendBuildDepth(paths) ==
    IF Len(paths) > 1 THEN 1 + appendBuildDepth(Tail(paths)) ELSE 1

(***************************************************************************)
(* set and the public functions.                                           *)
(***************************************************************************)
\* set after the path parsed as p.
setParsed(jstr, p, raw, stringify) ==
    IF p.err # "" THEN Failed(p.err)
    ELSE appendRawPaths("", jstr, p.paths, raw, stringify)

set(jstr, path, raw, stringify) ==
    IF path = "" THEN Failed(ErrEmptyPath)
    ELSE setParsed(jstr, parsePaths(path), raw, stringify)

SetRaw(json_, path, value) == set(json_, path, value, FALSE)

\* strconv.FormatInt(n, 10) and strconv.FormatUint(n, 10)
RECURSIVE FormatUint(_)
FormatUint(n) ==
    IF n < 10 THEN At("0123456789", n)
    ELSE FormatUint(n \div 10) \o At("0123456789", n % 10)

FormatInt(n) == IF n < 0 THEN "-" \o FormatUint(-n) ELSE FormatUint(n)

\* jsongo.Marshal of the values of the model that SetBytes does not switch on.
Marshal(value) ==
    IF value.type = "nil" THEN "null" ELSE FormatInt(value.n)

\* coerce with a slip: a text value is not stringified.
coerceTextUnquoted(value) ==
    IF value.type \in {"string", "bytes"}
    THEN [raw |-> value.s, stringify |-> FALSE]
    ELSE IF value.type = "bool"
         THEN [raw |-> IF value.b THEN "true" ELSE "false", stringify |-> FALSE]
    ELSE IF value.type \in {"int8", "int16", "int32", "int64"}
         THEN [raw |-> FormatInt(value.n), stringify |-> FALSE]
    ELSE IF value.type \in {"uint8", "uint16", "uint32", "uint64"}
         THEN [raw |-> FormatUint(value.n), stringify |-> FALSE]
    ELSE [raw |-> Marshal(value), stringify |-> FALSE]

\* The type switch of SetBytes: the raw text and whether it is stringified.
coerce(value) ==
    IF value.type \in {"string", "bytes"}
    THEN [raw |-> value.s, stringify |-> TRUE]
    ELSE IF value.type = "bool"
         THEN [raw |-> IF value.b THEN "true" ELSE "false", stringify |-> FALSE]
    ELSE IF value.type \in {"int8", "int16", "int32", "int64"}
         THEN [raw |-> FormatInt(value.n), stringify |-> FALSE]
    ELSE IF value.type \in {"uint8", "uint16", "uint32", "uint64"}
         THEN [raw |-> FormatUint(value.n), stringify |-> FALSE]
    ELSE [raw |-> Marshal(value), stringify |-> FALSE]

setCoerced(json_, path, c) == set(json_, path, c.raw, c.stringify)

\* A byte buffer is nil or holds bytes; []byte(s) holds the bytes of s, and
\* string(b) is the text of the bytes of b, the empty text for a nil buffer.
nilBytes == [nil |-> TRUE, data |-> ""]

toBytes(s) == [nil |-> FALSE, data |-> s]

toString(b) == IF b.nil THEN "" ELSE b.data

\* What set returns to the functions on buffers: nil with an error.
setBytes(r) ==
    IF r.err # "" THEN [buf |-> nilBytes, err |-> r.err]
    ELSE [buf |-> toBytes(r.buf), err |-> ""]

\* SetRawBytes with a slip: the value is written as a string.
SetRawBytesQuoted(jsonb, path, valueb) ==
    setBytes(set(toString(jsonb), path, toString(valueb), TRUE))

SetRawBytes(jsonb, path, valueb) ==
    setBytes(set(toString(jsonb), path, toString(valueb), FALSE))

\* The values that the type switch of SetBytes has a case for; any other
\* value takes the default case.
HasCase(value) ==
    value.type \in {"string", "bytes", "bool", "int8", "int16", "int32", "int64",
                    "uint8", "uint16", "uint32", "uint64"}

\* return res, err.  The default case declares an err of its own
\* (b, err := jsongo.Marshal(value)) and assigns the error of set to it, so
\* after the default case the err that is returned is still nil.
returnBytes(value, r) ==
    IF HasCase(value) \/ r.err = ErrPanic THEN r ELSE [buf |-> r.buf, err |-> ""]

SetBytes(jsonb, path, value) ==
    returnBytes(value, setBytes(setCoerced(toString(jsonb), path, coerce(value))))

\* string(res), err
setString(r) == [buf |-> toString(r.buf), err |-> r.err]

Set(json_, path, value) == setString(SetBytes(toBytes(json_), path, value))

(***************************************************************************)
(* Deletion mode (spec.md 4.5).  Delete is called by src/sjson_test.go and *)
(* is declared nowhere in src/sjson.go: it is modelled from the contract   *)
(* of spec.md.  The path is parsed and every segment looked up as set and  *)
(* appendRawPaths do; the located member or element is cut out and the     *)
(* commas around it are repaired.                                          *)
(***************************************************************************)
\* What is kept of the bytes before the excised value, and whether the
\* comma after the value goes as well.
deleteTail(buf, delNextComma) == [buf |-> buf, delNextComma |-> delNextComma]

\* The separator before the key that starts after offset i: a comma goes
\* with the key; after the opening brace the comma after the value goes.
RECURSIVE deleteBeforeKey(_, _)
deleteBeforeKey(buf, i) ==
    IF i < 0 THEN deleteTail(buf, FALSE)
    ELSE IF At(buf, i) = "{" THEN deleteTail(Slice(buf, 0, i + 1), TRUE)
    ELSE IF At(buf, i) = "," THEN deleteTail(Slice(buf, 0, i), FALSE)
    ELSE deleteBeforeKey(buf, i - 1)

\* The closing quote of the key, at or before offset i.
RECURSIVE deleteKeyEnd(_, _)
deleteKeyEnd(buf, i) ==
    IF i < 0 THEN -1
    ELSE IF At(buf, i) = "\"" THEN i
    ELSE deleteKeyEnd(buf, i - 1)

\* The opening quote of the key, at or before offset i: a quote that no
\* backslash escapes.
RECURSIVE deleteKeyStart(_, _)
deleteKeyStart(buf, i) ==
    IF i < 0 THEN -1
    ELSE IF At(buf, i) = "\"" /\ ~(i > 0 /\ At(buf, i - 1) = "\\") THEN i
    ELSE deleteKeyStart(buf, i - 1)

\* The key before the colon at offset i is cut with the separator before it.
deleteKey(buf, i) ==
    deleteBeforeKey(buf, deleteKeyStart(buf, deleteKeyEnd(buf, i - 1) - 1) - 1)

\* Comma repair before the excised value, scanning back from offset i: the
\* comma before an element goes; after the opening bracket the comma after
\* the element goes; at a colon the key goes too.
RECURSIVE deleteTailItem(_, _)
deleteTailItem(buf, i) ==
    IF i < 0 THEN deleteTail(buf, FALSE)
    ELSE IF At(buf, i) = "[" THEN deleteTail(buf, TRUE)
    ELSE IF At(buf, i) = "," THEN deleteTail(Slice(buf, 0, i), FALSE)
    ELSE IF At(buf, i) = ":" THEN deleteKey(buf, i)
    ELSE deleteTailItem(buf, i - 1)

\* The offset after the comma that follows offset i, or i when the next
\* byte that is not whitespace is no comma.
RECURSIVE deleteNextComma(_, _, _)
deleteNextComma(jstr, i, j) ==
    IF j >= Len(jstr) THEN i
    ELSE IF IsSpace(At(jstr, j)) THEN deleteNextComma(jstr, i, j + 1)
    ELSE IF At(jstr, j) = "," THEN j + 1
    ELSE i

\* prefix + suffix: the bytes kept before the value and the bytes after it.
deleteExcised(jstr, t, e) ==
    Done(t.buf \o From(jstr, IF t.delNextComma THEN deleteNextComma(jstr, e, e) ELSE e))

\* The element a key of -1, not forced, names in an array: the last one
\* (src/sjson_test.go, TestDelete); any other key is looked up as
\* appendRawPaths looks it up.
deleteLast(jstr, s, p) ==
    IF /\ p.part = "-1" /\ ~p.force
       /\ s < Len(jstr) /\ At(jstr, s) = "["
       /\ Len(gjsonArray(From(jstr, s))) > 0
    THEN gjsonGet(jstr, FormatUint(Len(gjsonArray(From(jstr, s))) - 1))
    ELSE gjsonGet(jstr, p.part)

deleteLookup(jstr, p) == deleteLast(jstr, gjsonContainerStart(jstr, 0), p)

RECURSIVE deleteRawPaths(_, _)

\* deleteRawPaths after the lookup of paths[1] returned res0: a path that
\* does not resolve leaves the document as it is.
deleteLocated(jstr, res0, paths) ==
    IF res0.Index > 0
    THEN IF Len(paths) > 1
         THEN Done(Slice(jstr, 0, res0.Index)
                       \o deleteRawPaths(res0.Raw, Tail(paths)).buf
                       \o From(jstr, afterValue(res0)))
         ELSE deleteExcised(jstr,
                            deleteTailItem(Slice(jstr, 0, res0.Index), res0.Index - 1),
                            afterValue(res0))
    ELSE Done(jstr)

deleteRawPaths(jstr, paths) == deleteLocated(jstr, deleteLookup(jstr, paths[1]), paths)

deleteParsed(jstr, p) ==
    IF p.err # "" THEN Failed(p.err) ELSE deleteRawPaths(jstr, p.paths)

Delete(json_, path) ==
    IF path = "" THEN Failed(ErrEmptyPath) ELSE deleteParsed(json_, parsePaths(path))

(***************************************************************************)
(* The inputs of the model.                                                *)
(***************************************************************************)
\* The most segments of a path built from KeySegs.
MaxSegs == 2

\* The longest result a caller goes on to edit.
MaxDocLen == 5

\* Segment texts: a member key, indexes, the append key and a forced key.
KeySegs == {"a", "0", "1", "-1", ":1"}

RECURSIVE SegPaths(_)
SegPaths(n) ==
    IF n <= 1 THEN KeySegs
    ELSE SegPaths(n - 1) \cup {p \o "." \o k : p \in SegPaths(n - 1), k \in KeySegs}

\* Other keys, deeper paths, empty segments, paths with escapes and paths
\* with reserved bytes.
ExtraPaths ==
    { "b", "b.a", "a.b", "b.0", "b.a.1", "b.a.2", "b.a.3", "b.a.-1", "b.a.:1", "1.a.b",
      "a.b.0", "0.0", "2", "a.2", "0.2",
      "", ":", ".", "a.", ".a", "0.", ":a",
      "a\\.b", "\\:1", "a\\\\", "a\\.b.0", "\\:1.a", "a.\\:1", "a\\", "\\a.b",
      "#", "a.#", "a*", "a?b", "a.b*", "\\1#", "a\\s?", "a\\a*",
      "#*", "*#", "a#.b?", "a\\\\#*" }

Paths == SegPaths(MaxSegs) \cup ExtraPaths

Value(type, str, num, bool) == [type |-> type, s |-> str, n |-> num, b |-> bool]

\* The values given to SetRaw.
RawValues == {"1", "\"x\"", "[2]"}

\* The values given to Set.
TypedValues ==
    { Value("string", "x", 0, FALSE),
      Value("string", "\\", 0, FALSE),
      Value("string", "a\"b", 0, FALSE),
      Value("string", "a\nb", 0, FALSE),
      Value("int", "", 1, FALSE),
      Value("int64", "", 12, FALSE),
      Value("bool", "", 0, TRUE),
      Value("nil", "", 0, FALSE) }

\* The documents a caller starts from.
Docs ==
    { "", "  ",
      "{}", "[]", "[ ]",
      "{\"a\":1}", "[1,2]", "[1]",
      "{\"a\":1,\"b\":{\"a\":[0,1]}}",
      " { \"a\" : 1 , \"b\" : [ 1 ] } ",
      "  [ 1,2  ] ",
      "{\"a.b\":\"x\"}",
      "{\"b\":\"x\",\"1\":[]}",
      "[[1],{\"a\":2}]",
      "1", "[null]" }

NoCall == [op |-> "none", path |-> "", value |-> Value("nil", "", 0, FALSE)]

NoResult == [buf |-> "", err |-> ""]

Init ==
    /\ json \in Docs
    /\ call = NoCall
    /\ res = NoResult

\* SetRaw(json, path, value)
DoSetRaw(path, value) ==
    /\ call.op = "none"
    /\ call' = [op |-> "SetRaw", path |-> path, value |-> Value("raw", value, 0, FALSE)]
    /\ res' = SetRaw(json, path, value)
    /\ UNCHANGED json

\* Set(json, path, value)
DoSet(path, value) ==
    /\ call.op = "none"
    /\ call' = [op |-> "Set", path |-> path, value |-> value]
    /\ res' = Set(json, path, value)
    /\ UNCHANGED json

\* SetRawBytes([]byte(json), path, []byte(value))
DoSetRawBytes(path, value) ==
    /\ call.op = "none"
    /\ call' = [op |-> "SetRawBytes", path |-> path,
                value |-> Value("raw", value, 0, FALSE)]
    /\ res' = SetRawBytes(toBytes(json), path, toBytes(value))
    /\ UNCHANGED json

\* SetBytes([]byte(json), path, value)
DoSetBytes(path, value) ==
    /\ call.op = "none"
    /\ call' = [op |-> "SetBytes", path |-> path, value |-> value]
    /\ res' = SetBytes(toBytes(json), path, value)
    /\ UNCHANGED json

\* The caller goes on with the document a successful call returned.
Adopt ==
    /\ call.op \in {"Set", "SetRaw"}
    /\ res.err = ""
    /\ Len(res.buf) <= MaxDocLen
    /\ json' = res.buf
    /\ call' = NoCall
    /\ res' = NoResult

Next ==
    \/ \E p \in Paths, v \in RawValues : DoSetRaw(p, v)
    \/ \E p \in Paths, v \in TypedValues : DoSet(p, v)
    \/ Adopt

Spec == Init /\ [][Next]_vars

\* The caller goes on with the buffer a successful call returned.
AdoptBytes ==
    /\ call.op \in {"SetBytes", "SetRawBytes"}
    /\ res.err = ""
    /\ Len(toString(res.buf)) <= MaxDocLen
    /\ json' = toString(res.buf)
    /\ call' = NoCall
    /\ res' = NoResult

\* The functions on text and the functions on buffers.
NextBytes ==
    \/ \E p \in Paths, v \in RawValues : DoSetRaw(p, v)
    \/ \E p \in Paths, v \in TypedValues : DoSet(p, v)
    \/ \E p \in Paths, v \in RawValues : DoSetRawBytes(p, v)
    \/ \E p \in Paths, v \in TypedValues : DoSetBytes(p, v)
    \/ Adopt
    \/ AdoptBytes

SpecBytes == Init /\ [][NextBytes]_vars

(***************************************************************************)
(* The values of every type that SetBytes switches on, set in an empty     *)
(* document or container.                                                  *)
(***************************************************************************)
CoerceDocs == {"", " ", "{}", "[]"}

CoercePaths == {"0", "a"}

CoerceRaws == {"1234.5", "\"x\"", "x", "{\"b\":[1]}"}

CoerceValues ==
    { Value("string", "x", 0, FALSE),
      Value("string", "1234.5", 0, FALSE),
      Value("string", "true", 0, FALSE),
      Value("string", "", 0, FALSE),
      Value("string", "a\"b", 0, FALSE),
      Value("string", "a\nb", 0, FALSE),
      Value("string", "\\", 0, FALSE),
      Value("bytes", "x", 0, FALSE),
      Value("bool", "", 0, TRUE),
      Value("bool", "", 0, FALSE),
      Value("int8", "", -128, FALSE),
      Value("int8", "", 127, FALSE),
      Value("int16", "", -32768, FALSE),
      Value("int32", "", 2147483647, FALSE),
      Value("int64", "", -2147483647, FALSE),
      Value("int64", "", 0, FALSE),
      Value("uint8", "", 255, FALSE),
      Value("uint16", "", 65535, FALSE),
      Value("uint32", "", 7, FALSE),
      Value("uint64", "", 2147483647, FALSE),
      Value("int", "", -5, FALSE),
      Value("uint", "", 10, FALSE),
      Value("nil", "", 0, FALSE) }

InitCoerce ==
    /\ json \in CoerceDocs
    /\ call = NoCall
    /\ res = NoResult

NextCoerce ==
    \/ \E p \in CoercePaths, v \in CoerceRaws : DoSetRaw(p, v)
    \/ \E p \in CoercePaths, v \in CoerceValues : DoSet(p, v)

SpecCoerce == InitCoerce /\ [][NextCoerce]_vars

(***************************************************************************)
(* SetRaw on documents that are not JSON: truncated, unbalanced, with      *)
(* stray bytes.                                                            *)
(***************************************************************************)
RandomDocs ==
    { "{", "[", "}", "]", "\"", ",", ":", "\\", "x", "-", "nul", "tru",
      "{\"", "{\"a", "{\"a\"", "{\"a\":", "{\"a\":1", "{\"a\":1,", "{\"a\":\"x",
      "{\"a\":\"\\", "{\"a\\", "{\"a\" 1}", "{a:1}", "{\"a\":{", "{\"a\":[",
      "{\"a\":[1,2", "{\"a\":{\"b\":", "{\"a\":1}}", "{\"a\":}", "{,}", "{:}",
      "[[", "[1,", "[1 2]", "[1,]", "[,1]", "[-", "[\"", "[{", "[{\"a\":", "[[1]",
      "[]]", "][", "}{", " [", "\n{", "{\"a\":1  ", "[1,2]x", "1{\"a\":2}", "x[1]",
      "{\"a\":tru", "{\"0\":[", "{\"a\":\"b\":1}", "[\"a\":1]" }

RandomPaths ==
    { "a", "0", "1", "-1", ":1", "a.b", "a.0", "a.1", "a.-1", "0.a", "0.0", "1.a",
      "a.b.0", "a\\.b", "b", "." }

InitRandom ==
    /\ json \in RandomDocs
    /\ call = NoCall
    /\ res = NoResult

NextRandom == \E p \in RandomPaths, v \in RawValues : DoSetRaw(p, v)

SpecRandom == InitRandom /\ [][NextRandom]_vars

(***************************************************************************)
(* SetRaw with keys of letters and digits, call after call, on documents   *)
(* and with values that have whitespace and newlines in them.              *)
(***************************************************************************)
\* The longest result a caller goes on to edit with plain keys.
MaxPlainLen == 7

PlainKeys == {"a", "b", "0", "1"}

RECURSIVE PlainPaths(_)
PlainPaths(n) ==
    IF n <= 1 THEN PlainKeys
    ELSE PlainPaths(n - 1) \cup {p \o "." \o k : p \in PlainPaths(n - 1), k \in PlainKeys}

PlainRaws == {"1", "\"x\"", "\n{\n \"b\": \"x\"\n}\n", " [ 2 ,\t3 ] ", "{}"}

PlainDocs ==
    { "", " \n", "{}", "[]", "{ }", "\n[\n]\n",
      "\n{\n \"a\": 1\n}\n",
      " { \"a\" : { \"b\" : [ 1 ] } , \"b\" : \"}\" } ",
      "\n[ 1 ,\n [ ] ]\n",
      "[{\"a\":[]},2]" }

InitPlain ==
    /\ json \in PlainDocs
    /\ call = NoCall
    /\ res = NoResult

\* The caller goes on with the document a successful call returned.
AdoptPlain ==
    /\ call.op = "SetRaw"
    /\ res.err = ""
    /\ Len(res.buf) <= MaxPlainLen
    /\ json' = res.buf
    /\ call' = NoCall
    /\ res' = NoResult

NextPlain ==
    \/ \E p \in PlainPaths(MaxSegs), v \in PlainRaws : DoSetRaw(p, v)
    \/ AdoptPlain

SpecPlain == InitPlain /\ [][NextPlain]_vars

(***************************************************************************)
(* Deleting: the documents and paths of TestDelete, with documents that    *)
(* have whitespace, nested containers, a repeated key and commas inside    *)
(* strings.                                                                *)
(***************************************************************************)
DeleteDocs ==
    { "[123,456]", "[123,456,789]",
      "{\"a\":[123,456,789]}",
      "{\"this\":\"that\",\"and\":\"another\"}",
      "{\"and\":\"another\"}",
      "{\"1\":\"2\"}",
      "{ \"a\" : 1 , \"b\" : 2 , \"c\" : 3 }",
      "[ 1 , 2 , 3 ]",
      "{\"a\":\"x,y\",\"b\":{\"c\":[1,2]},\"c\":\"]:[\"}",
      "{\"a\":1,\"a\":2}",
      "[[1,2],{\"a\":1,\"b\":2}]",
      "{\"-1\":1,\"b\":2}" }

DeletePaths ==
    { "0", "1", "2", "3", "-1", "a", "b", "c", "this", "and",
      "a.-1", "a.0", "a.1", "b.c", "b.c.0", "b.c.-1", "0.0", "1.a", "1.b", "-1.b",
      "", "a.#" }

InitDelete ==
    /\ json \in DeleteDocs
    /\ call = NoCall
    /\ res = NoResult

\* Delete(json, path)
DoDelete(path) ==
    /\ call.op = "none"
    /\ call' = [op |-> "Delete", path |-> path, value |-> Value("nil", "", 0, FALSE)]
    /\ res' = Delete(json, path)
    /\ UNCHANGED json

\* The caller goes on with the document Delete returned.
AdoptDelete ==
    /\ call.op = "Delete"
    /\ res.err = ""
    /\ json' = res.buf
    /\ call' = NoCall
    /\ res' = NoResult

NextDelete ==
    \/ \E p \in DeletePaths : DoDelete(p)
    \/ AdoptDelete

SpecDelete == InitDelete /\ [][NextDelete]_vars

(***************************************************************************)
(* Parsing a path: every path of at most MaxPathLen bytes, each byte one   *)
(* that parsePath tests for or a plain one.                                *)
(***************************************************************************)
MaxPathLen == 4

PathBytes == {"a", "1", ".", ":", "\\", "#", "*", "?"}

RECURSIVE PathsOfLen(_)
PathsOfLen(n) ==
    IF n = 0 THEN {""} ELSE {p \o c : p \in PathsOfLen(n - 1), c \in PathBytes}

InitParse ==
    /\ json = ""
    /\ call = NoCall
    /\ res = NoResult

\* The loop of set over parsePath, for a path that is not empty.
DoParse(path) ==
    /\ call.op = "none"
    /\ call' = [op |-> "parsePath", path |-> path, value |-> Value("nil", "", 0, FALSE)]
    /\ res' = parsePaths(path)
    /\ UNCHANGED json

\* One path is parsed by a call.
NextParse ==
    /\ call.op = "none"
    /\ \E n \in 1..MaxPathLen : \E p \in PathsOfLen(n) : DoParse(p)

SpecParse == InitParse /\ [][NextParse]_vars

(***************************************************************************)
(* Reading a document.  The operators below read JSON text as the JSON     *)
(* grammar defines it, independently of the lookups the engine uses, and   *)
(* state what a result has to be.                                          *)
(***************************************************************************)
RECURSIVE SkipSpace(_, _)
SkipSpace(s, i) ==
    IF i < Len(s) /\ At(s, i) \in {" ", "\t", "\n", "\r"} THEN SkipSpace(s, i + 1)
    ELSE i

\* SkipSpace after a scan that may have failed.
SkipFrom(s, e) == IF e < 0 THEN -1 ELSE SkipSpace(s, e)

HexDigits == {At("0123456789abcdefABCDEF", i) : i \in 0..21}

\* The offset after the string literal whose opening quote is before i, or
\* -1 when the text from i is not the rest of a string literal.
RECURSIVE StringEnd(_, _)
StringEnd(s, i) ==
    IF i >= Len(s) THEN -1
    ELSE IF At(s, i) = "\"" THEN i + 1
    ELSE IF At(s, i) \in {"\t", "\n", "\r"} THEN -1
    ELSE IF At(s, i) # "\\" THEN StringEnd(s, i + 1)
    ELSE IF i + 1 >= Len(s) THEN -1
    ELSE IF At(s, i + 1) \in {"\"", "\\", "/", "b", "f", "n", "r", "t"}
         THEN StringEnd(s, i + 2)
    ELSE IF /\ At(s, i + 1) = "u"
            /\ i + 5 < Len(s)
            /\ \A k \in 2..5 : At(s, i + k) \in HexDigits
         THEN StringEnd(s, i + 6)
    ELSE -1

RECURSIVE DigitsEnd(_, _)
DigitsEnd(s, i) ==
    IF i < Len(s) /\ At(s, i) \in {At("0123456789", d) : d \in 0..9}
    THEN DigitsEnd(s, i + 1)
    ELSE i

\* An integer: the numbers of the model have no fraction and no exponent.
IntegerEnd(s, i, e) ==
    IF e = i \/ (At(s, i) = "0" /\ e > i + 1) THEN -1 ELSE e

NumberEnd(s, i) ==
    IF At(s, i) = "-" THEN IntegerEnd(s, i + 1, DigitsEnd(s, i + 1))
    ELSE IntegerEnd(s, i, DigitsEnd(s, i))

StartsWith(s, i, word) ==
    i + Len(word) <= Len(s) /\ Slice(s, i, i + Len(word)) = word

RECURSIVE ValueEnd(_, _)
RECURSIVE MembersEnd(_, _)
RECURSIVE ElementsEnd(_, _)

\* After a member's value that ends at e.
AfterMember(s, e) ==
    IF e < 0 \/ e >= Len(s) THEN -1
    ELSE IF At(s, e) = "}" THEN e + 1
    ELSE IF At(s, e) = "," THEN MembersEnd(s, SkipSpace(s, e + 1))
    ELSE -1

\* After a member's key that ends at e.
AfterKey(s, e) ==
    IF e < 0 \/ e >= Len(s) \/ At(s, e) # ":" THEN -1
    ELSE AfterMember(s, SkipFrom(s, ValueEnd(s, SkipSpace(s, e + 1))))

MembersEnd(s, i) ==
    IF i >= Len(s) \/ At(s, i) # "\"" THEN -1
    ELSE AfterKey(s, SkipFrom(s, StringEnd(s, i + 1)))

\* After an element that ends at e.
AfterElement(s, e) ==
    IF e < 0 \/ e >= Len(s) THEN -1
    ELSE IF At(s, e) = "]" THEN e + 1
    ELSE IF At(s, e) = "," THEN ElementsEnd(s, SkipSpace(s, e + 1))
    ELSE -1

ElementsEnd(s, i) == AfterElement(s, SkipFrom(s, ValueEnd(s, i)))

\* The object or array whose first member or element, or closing byte, is
\* at i.
ContainerEnd(s, i, close) ==
    IF i >= Len(s) THEN -1
    ELSE IF At(s, i) = close THEN i + 1
    ELSE IF close = "}" THEN MembersEnd(s, i)
    ELSE ElementsEnd(s, i)

\* The offset after the JSON value that starts at i, or -1 when none does.
ValueEnd(s, i) ==
    IF i >= Len(s) THEN -1
    ELSE IF At(s, i) = "\"" THEN StringEnd(s, i + 1)
    ELSE IF At(s, i) = "{" THEN ContainerEnd(s, SkipSpace(s, i + 1), "}")
    ELSE IF At(s, i) = "[" THEN ContainerEnd(s, SkipSpace(s, i + 1), "]")
    ELSE IF StartsWith(s, i, "true") \/ StartsWith(s, i, "null") THEN i + 4
    ELSE IF StartsWith(s, i, "false") THEN i + 5
    ELSE NumberEnd(s, i)

\* s is one JSON value with optional whitespace around it.
ValidJSON(s) == SkipFrom(s, ValueEnd(s, SkipSpace(s, 0))) = Len(s)

\* s is exactly one string literal.
IsString(s) == Len(s) >= 2 /\ At(s, 0) = "\"" /\ StringEnd(s, 1) = Len(s)

Blank(s) == SkipSpace(s, 0) = Len(s)

IsObject(s) == SkipSpace(s, 0) < Len(s) /\ At(s, SkipSpace(s, 0)) = "{"

IsArray(s) == SkipSpace(s, 0) < Len(s) /\ At(s, SkipSpace(s, 0)) = "["

\* The byte an escape stands for; \b, \f and \r stand for bytes no text of
\* the model holds.
Unescaped(c) ==
    IF c = "n" THEN "\n"
    ELSE IF c = "t" THEN "\t"
    ELSE IF c = "r" THEN "\r"
    ELSE c

HexValue(c) ==
    CHOOSE v \in 0..15 : At("0123456789abcdef", v) = c \/ At("0123456789ABCDEF", v) = c

\* The byte of \u00xy.
UnescapedHex(x, y) ==
    IF \E b \in Bytes : Code(b) = 16 * HexValue(x) + HexValue(y)
    THEN CHOOSE b \in Bytes : Code(b) = 16 * HexValue(x) + HexValue(y)
    ELSE "\\u00" \o x \o y

\* The text of the string literal lit, from offset i on.
RECURSIVE DecodeFrom(_, _)
DecodeFrom(lit, i) ==
    IF i >= Len(lit) - 1 THEN ""
    ELSE IF At(lit, i) # "\\" THEN At(lit, i) \o DecodeFrom(lit, i + 1)
    ELSE IF i + 1 >= Len(lit) - 1 THEN ""
    ELSE IF At(lit, i + 1) = "u" /\ i + 5 < Len(lit) - 1
         THEN UnescapedHex(At(lit, i + 4), At(lit, i + 5)) \o DecodeFrom(lit, i + 6)
    ELSE Unescaped(At(lit, i + 1)) \o DecodeFrom(lit, i + 2)

DecodeString(lit) == DecodeFrom(lit, 1)

\* The members of the object whose first key, or closing brace, is at i:
\* each with its decoded key, the offset of its value and the value's text.
RECURSIVE MembersFrom(_, _)

MembersAfter(s, c) ==
    IF c < Len(s) /\ At(s, c) = "," THEN MembersFrom(s, SkipSpace(s, c + 1))
    ELSE <<>>

MembersValue(s, key, v, e) ==
    IF e < 0 THEN <<>>
    ELSE <<[key |-> key, off |-> v, raw |-> Slice(s, v, e)]>>
             \o MembersAfter(s, SkipSpace(s, e))

MembersKey(s, key, v) == MembersValue(s, key, v, ValueEnd(s, v))

MembersColon(s, i, ke) ==
    IF ke < 0 THEN <<>>
    ELSE MembersKey(s, DecodeString(Slice(s, i, ke)),
                    SkipSpace(s, SkipSpace(s, ke) + 1))

MembersFrom(s, i) ==
    IF i >= Len(s) \/ At(s, i) # "\"" THEN <<>>
    ELSE MembersColon(s, i, StringEnd(s, i + 1))

Members(s) ==
    IF IsObject(s) THEN MembersFrom(s, SkipSpace(s, SkipSpace(s, 0) + 1)) ELSE <<>>

\* The elements of the array whose first element, or closing bracket, is at
\* i: each with the offset of its value and the value's text.
RECURSIVE ElementsFrom(_, _)

ElementsAfter(s, c) ==
    IF c < Len(s) /\ At(s, c) = "," THEN ElementsFrom(s, SkipSpace(s, c + 1))
    ELSE <<>>

ElementsValue(s, v, e) ==
    IF e < 0 THEN <<>>
    ELSE <<[off |-> v, raw |-> Slice(s, v, e)]>> \o ElementsAfter(s, SkipSpace(s, e))

ElementsFrom(s, i) ==
    IF i >= Len(s) \/ At(s, i) = "]" THEN <<>>
    ELSE ElementsValue(s, i, ValueEnd(s, i))

Elements(s) ==
    IF IsArray(s) THEN ElementsFrom(s, SkipSpace(s, SkipSpace(s, 0) + 1)) ELSE <<>>

\* The texts of a list of members or elements.
Raws(items) == [i \in 1..Len(items) |-> items[i].raw]

Keys(items) == [i \in 1..Len(items) |-> items[i].key]

(***************************************************************************)
(* Reading a path: the segments a path names, as the path syntax defines   *)
(* them.  A dot ends a segment, a leading colon forces the segment to be a *)
(* member key, a backslash makes the next byte part of the key.            *)
(***************************************************************************)
Reserved == {"*", "?", "#"}

\* The first reserved byte of path that no backslash escapes, from offset i
\* on, or "" when there is none.
RECURSIVE FirstReserved(_, _)
FirstReserved(path, i) ==
    IF i >= Len(path) THEN ""
    ELSE IF At(path, i) = "\\" THEN FirstReserved(path, i + 2)
    ELSE IF At(path, i) \in Reserved THEN At(path, i)
    ELSE FirstReserved(path, i + 1)

HasEscape(path) == \E i \in 0..(Len(path) - 1) : At(path, i) = "\\"

WellFormedPath(path) == path # "" /\ FirstReserved(path, 0) = ""

RECURSIVE SegmentsFrom(_, _)
RECURSIVE SegmentScan(_, _, _, _)

\* The segment whose key so far is key, scanned up to offset i.
SegmentScan(path, i, key, force) ==
    IF i >= Len(path) THEN <<[part |-> key, force |-> force]>>
    ELSE IF At(path, i) = "."
         THEN <<[part |-> key, force |-> force]>> \o SegmentsFrom(path, i + 1)
    ELSE IF At(path, i) # "\\" THEN SegmentScan(path, i + 1, key \o At(path, i), force)
    ELSE IF i + 1 < Len(path)
         THEN SegmentScan(path, i + 2, key \o At(path, i + 1), force)
    ELSE SegmentScan(path, i + 1, key, force)

SegmentsFrom(path, i) ==
    IF i < Len(path) /\ At(path, i) = ":" THEN SegmentScan(path, i + 1, "", TRUE)
    ELSE SegmentScan(path, i, "", FALSE)

Segments(path) == SegmentsFrom(path, 0)

AllDigits(s) == \A i \in 0..(Len(s) - 1) : At(s, i) \in {At("0123456789", d) : d \in 0..9}

\* A segment that names an array index: an unforced non-negative integer.
IsIndexKey(seg) == ~seg.force /\ seg.part # "" /\ AllDigits(seg.part)

RECURSIVE DecimalValue(_, _)
DecimalValue(s, n) ==
    IF n = 0 THEN 0
    ELSE 10 * DecimalValue(s, n - 1)
            + (CHOOSE d \in 0..9 : At("0123456789", d) = At(s, n - 1))

IndexOf(seg) == DecimalValue(seg.part, Len(seg.part))

(***************************************************************************)
(* What a segment names in a document: the member of an object with that   *)
(* key, or the element of an array at that index.                          *)
(***************************************************************************)
NotLocated == [found |-> FALSE, off |-> 0, raw |-> ""]

Located(item) == [found |-> TRUE, off |-> item.off, raw |-> item.raw]

NamedMember(ms, key) ==
    IF \E i \in 1..Len(ms) : ms[i].key = key
    THEN Located(ms[CHOOSE i \in 1..Len(ms) :
                        ms[i].key = key /\ \A j \in 1..(i - 1) : ms[j].key # key])
    ELSE NotLocated

NamedElement(es, n) == IF n < Len(es) THEN Located(es[n + 1]) ELSE NotLocated

Named(doc, seg) ==
    IF IsObject(doc) THEN NamedMember(Members(doc), seg.part)
    ELSE IF IsArray(doc) /\ IsIndexKey(seg) THEN NamedElement(Elements(doc), IndexOf(seg))
    ELSE NotLocated

\* The value the segments segs name in doc, which starts at offset base of
\* the whole document.
RECURSIVE Locate(_, _, _)

LocateIn(hit, segs, base) ==
    IF ~hit.found THEN NotLocated
    ELSE Locate(hit.raw, Tail(segs), base + hit.off)

Locate(doc, segs, base) ==
    IF segs = <<>> THEN [found |-> TRUE, off |-> base, raw |-> doc]
    ELSE LocateIn(Named(doc, segs[1]), segs, base)

(***************************************************************************)
(* The call a state holds the result of.                                   *)
(***************************************************************************)
Called == call.op # "none"

CallSegs == Segments(call.path)

\* text is the new value of the call: the raw text given to SetRaw, or the
\* JSON text of the value given to Set.
IsNewValue(text) ==
    IF call.op = "SetRaw" THEN text = call.value.s
    ELSE IF call.value.type = "string"
         THEN IsString(text) /\ DecodeString(text) = call.value.s
    ELSE IF call.value.type = "bool"
         THEN text = (IF call.value.b THEN "true" ELSE "false")
    ELSE IF call.value.type = "nil" THEN text = "null"
    ELSE text = FormatInt(call.value.n)

\* The prefix of segs of length n.
Prefix(segs, n) == SubSeq(segs, 1, n)

\* The text the call writes for its value: the raw text given to SetRaw, the
\* text of the value given to Set, a string value in quotes.
NewText ==
    IF call.op = "SetRaw" THEN call.value.s
    ELSE IF coerce(call.value).stringify THEN appendStringify("", coerce(call.value).raw)
    ELSE coerce(call.value).raw

\* The value the lookups of the engine locate for the segments segs in doc,
\* which starts at offset base of the whole document.
RECURSIVE Found(_, _, _)

FoundIn(r, segs, base) ==
    IF r.Index = 0 THEN NotLocated
    ELSE Found(r.Raw, Tail(segs), base + r.Index)

Found(doc, segs, base) ==
    IF segs = <<>> THEN [found |-> TRUE, off |-> base, raw |-> doc]
    ELSE FoundIn(gjsonGet(doc, segs[1].part), segs, base)

\* The document with the value at loc replaced by text.
Spliced(loc, text) ==
    Slice(json, 0, loc.off) \o text \o From(json, loc.off + Len(loc.raw))

(***************************************************************************)
(* C1: replacing an existing value.                                        *)
(***************************************************************************)
\* C1: when every segment of the path is located in the document, the
\* result is the bytes before the located value, the text of the new value,
\* and the bytes after the located value, at every depth.
C1_ReplaceTouchesOnlyTheValue ==
    (Called /\ WellFormedPath(call.path) /\ Found(json, CallSegs, 0).found)
        => res = Done(Spliced(Found(json, CallSegs, 0), NewText))

\* A call that replaces a value three levels deep by another text, in a
\* document with members before and after it.
C1_Witness ==
    /\ Called
    /\ WellFormedPath(call.path)
    /\ Len(CallSegs) = 3
    /\ Found(json, CallSegs, 0).found
    /\ Found(json, CallSegs, 0).raw # NewText
    /\ Found(json, CallSegs, 0).off + Len(Found(json, CallSegs, 0).raw) < Len(json) - 2
    /\ res.err = ""

(***************************************************************************)
(* C2: creating a value in a blank document.                               *)
(***************************************************************************)
RECURSIVE Nulls(_)
Nulls(k) == IF k <= 0 THEN "" ELSE "null," \o Nulls(k - 1)

\* A key of digits only, the empty key included, which counts as 0.
IsDigitsKey(seg) == ~seg.force /\ AllDigits(seg.part)

\* The minimal nesting that holds text at segs: an array for every index
\* key, an object for every other key.  The empty key is an index key when
\* emptyIsIndex.
RECURSIVE Nesting(_, _, _)
Nesting(segs, text, emptyIsIndex) ==
    IF segs = <<>> THEN text
    ELSE IF IsIndexKey(segs[1]) \/ (emptyIsIndex /\ IsDigitsKey(segs[1]))
         THEN "[" \o Nulls(IndexOf(segs[1])) \o Nesting(Tail(segs), text, emptyIsIndex)
                  \o "]"
    ELSE "{" \o appendStringify("", segs[1].part) \o ":"
             \o Nesting(Tail(segs), text, emptyIsIndex) \o "}"

Target(j) == Found(json, Prefix(CallSegs, j - 1), 0)

Fragment(j) == Nesting(SubSeq(CallSegs, j + 1, Len(CallSegs)), NewText, TRUE)

\* The array in v, without the whitespace around it.
ArrayText(v) == Slice(v, SkipSpace(v, 0), ValueEnd(v, SkipSpace(v, 0)))

\* The text that takes the place of Target(j) in the result.
NewTarget(j) ==
    Slice(res.buf, Target(j).off,
          Len(res.buf) - (Len(json) - Target(j).off - Len(Target(j).raw)))

RECURSIVE Join(_)
Join(texts) ==
    IF texts = <<>> THEN ""
    ELSE IF Len(texts) = 1 THEN texts[1]
    ELSE texts[1] \o "," \o Join(Tail(texts))

NullTexts(k) == [i \in 1..k |-> "null"]

(***************************************************************************)
(* C3: the key -1 appends to an existing array.                            *)
(***************************************************************************)
IsAppendKey(seg) == seg.part = "-1" /\ ~seg.force

AppendCase(j) ==
    /\ Called
    /\ WellFormedPath(call.path)
    /\ IsAppendKey(CallSegs[j])
    /\ ValidJSON(json)
    /\ Target(j).found
    /\ IsArray(Target(j).raw)

\* The array old with the fragment appended: the closing bracket taken off,
\* a comma if it has elements, the fragment, the closing bracket.
Appended(old, fragment) ==
    Slice(old, 0, Len(old) - 1) \o (IF Elements(old) # <<>> THEN "," ELSE "")
        \o fragment \o "]"

\* C3: a call whose key at an existing array is -1, without a colon,
\* returns that array with its elements as they were, in their order, and
\* the new value as one more element after them; a comma is inserted
\* exactly when the array had an element; the whitespace around a root
\* array is dropped and the result is well formed.
C3_AppendKeepsElementsAndAddsLast ==
    \A j \in 1..Len(CallSegs) :
        AppendCase(j) =>
            /\ res = Done(Spliced(Target(j),
                                  Appended(ArrayText(Target(j).raw), Fragment(j))))
            /\ ValidJSON(Fragment(j)) =>
                   /\ ValidJSON(res.buf)
                   /\ Raws(Elements(NewTarget(j)))
                          = Raws(Elements(Target(j).raw)) \o <<Fragment(j)>>

\* An append to a root array that has elements and whitespace around it.
C3_Witness ==
    /\ AppendCase(1)
    /\ Len(Elements(json)) = 2
    /\ SkipSpace(json, 0) > 0
    /\ res.err = ""
    /\ Len(Elements(res.buf)) = 3

(***************************************************************************)
(* C4: an index past the end of an existing array.                         *)
(***************************************************************************)
PastEndCase(j) ==
    /\ Called
    /\ WellFormedPath(call.path)
    /\ IsIndexKey(CallSegs[j])
    /\ ValidJSON(json)
    /\ Target(j).found
    /\ IsArray(Target(j).raw)
    /\ Len(Elements(Target(j).raw)) <= IndexOf(CallSegs[j])

\* The elements old, the null padding up to index n, the fragment.
Padded(old, n, fragment) ==
    "[" \o Join(Raws(old) \o NullTexts(n - Len(old)) \o <<fragment>>) \o "]"

\* C4: a call with an unforced numeric key n at an existing array of
\* len <= n elements returns an array of n + 1 elements: the len elements
\* with their text as it was, n - len nulls, the new value at index n.
C4_IndexPastEndPadsWithNulls ==
    \A j \in 1..Len(CallSegs) :
        PastEndCase(j) =>
            /\ res = Done(Spliced(Target(j),
                                  Padded(Elements(Target(j).raw), IndexOf(CallSegs[j]),
                                         Fragment(j))))
            /\ ValidJSON(Fragment(j)) =>
                   /\ ValidJSON(res.buf)
                   /\ Len(Elements(NewTarget(j))) = IndexOf(CallSegs[j]) + 1
                   /\ Raws(Elements(NewTarget(j)))
                          = Raws(Elements(Target(j).raw))
                                \o NullTexts(IndexOf(CallSegs[j])
                                                 - Len(Elements(Target(j).raw)))
                                \o <<Fragment(j)>>

\* An index two past the end of a nested array that has elements: one null
\* between the elements and the value.
C4_Witness ==
    /\ Len(CallSegs) = 3
    /\ PastEndCase(3)
    /\ Len(Elements(Target(3).raw)) = 2
    /\ IndexOf(CallSegs[3]) = 3
    /\ res.err = ""

(***************************************************************************)
(* C5: a key with a leading colon is a member key.                         *)
(***************************************************************************)
\* The array that the segments before CallSegs[j] name, and a forced key of
\* digits for it.
ForcedCase(j) ==
    /\ Called
    /\ WellFormedPath(call.path)
    /\ ValidJSON(json)
    /\ Locate(json, Prefix(CallSegs, j - 1), 0).found
    /\ IsArray(Locate(json, Prefix(CallSegs, j - 1), 0).raw)
    /\ CallSegs[j].force
    /\ CallSegs[j].part # ""
    /\ AllDigits(CallSegs[j].part)

\* The result holds the text of loc as the document does.
Untouched(loc) ==
    /\ Len(res.buf) = Len(json)
    /\ Slice(res.buf, loc.off, loc.off + Len(loc.raw)) = loc.raw

\* C5: a segment :n against an array is a member key and never the index
\* n: the call does not locate, replace or create an element of that
\* array, so a call that succeeds leaves the array as it was.
C5_ForcedKeyIsNeverAnIndex ==
    \A j \in 1..Len(CallSegs) :
        (ForcedCase(j) /\ res.err = "")
            => Untouched(Locate(json, Prefix(CallSegs, j - 1), 0))

(***************************************************************************)
(* C6: the paths that are rejected.                                        *)
(***************************************************************************)
\* Some byte of path from offset i on is in bytes and no backslash escapes it.
RECURSIVE HasUnescaped(_, _, _)
HasUnescaped(path, i, bytes) ==
    IF i >= Len(path) THEN FALSE
    ELSE IF At(path, i) = "\\" THEN HasUnescaped(path, i + 2, bytes)
    ELSE At(path, i) \in bytes \/ HasUnescaped(path, i + 1, bytes)

\* C6 as stated: an empty path fails with "path cannot be empty", a path
\* with an unescaped * or ? fails with the wildcard error, a path with an
\* unescaped # fails with the array access error, whatever the document,
\* and no document is returned.
C6_AsStated ==
    Called =>
        /\ call.path = "" => res = Failed(ErrEmptyPath)
        /\ HasUnescaped(call.path, 0, {"*", "?"}) => res = Failed(ErrWildcard)
        /\ HasUnescaped(call.path, 0, {"#"}) => res = Failed(ErrArrayAccess)

(***************************************************************************)
(* C7: escapes in a path.                                                  *)
(***************************************************************************)
\* The key and the flag of each segment that parsePath returns.
KeysOf(paths) == [i \in 1..Len(paths) |-> [part |-> paths[i].part, force |-> paths[i].force]]

\* C7: an escaped byte is part of the key and means nothing else: an
\* escaped dot does not end the segment, an escaped leading colon does not
\* force the key and stays in it, an escaped backslash is one backslash.
\* Set("", a\.b, "x") is {"a.b":"x"} and the path \:1 creates the key :1.
C7_EscapedBytesAreLiteral ==
    Called =>
        /\ WellFormedPath(call.path) =>
               /\ parsePaths(call.path).err = ""
               /\ KeysOf(parsePaths(call.path).paths) = CallSegs
        /\ (Blank(json) /\ call.path = "a\\.b" /\ call.op = "Set"
                /\ call.value = Value("string", "x", 0, FALSE))
               => res = Done("{\"a.b\":\"x\"}")
        /\ (Blank(json) /\ call.path = "\\:1")
               => res = Done("{\":1\":" \o NewText \o "}")

\* Set("", a\.b, "x").
C7_Witness ==
    /\ Called
    /\ json = ""
    /\ call.path = "a\\.b"
    /\ call.op = "Set"
    /\ call.value = Value("string", "x", 0, FALSE)
    /\ CallSegs = <<[part |-> "a.b", force |-> FALSE]>>
    /\ res.err = ""

(***************************************************************************)
(* C8: an escaped dot names an existing member.                            *)
(***************************************************************************)
HasDot(key) == \E i \in 0..(Len(key) - 1) : At(key, i) = "."

\* C8: a call whose one segment has an escaped dot and names an existing
\* member replaces the value of that member in place: the result has the
\* members of the document, none twice.
C8_EscapedDotReplacesTheMember ==
    (/\ Called
     /\ WellFormedPath(call.path)
     /\ ValidJSON(json)
     /\ Len(CallSegs) = 1
     /\ HasDot(CallSegs[1].part)
     /\ Locate(json, CallSegs, 0).found)
        => /\ res = Done(Spliced(Locate(json, CallSegs, 0), NewText))
           /\ Keys(Members(res.buf)) = Keys(Members(json))

(***************************************************************************)
(* C9: the string literals a call writes.                                  *)
(***************************************************************************)
\* C9: the string literal written for a created member key and for a text
\* value given to Set is a valid JSON string literal, and reading it gives
\* the key or the text back; Set("", "a", \) is {"a":"\\"}.
C9_WrittenStringsReadBack ==
    (/\ Called
     /\ WellFormedPath(call.path)
     /\ Blank(json)
     /\ Len(CallSegs) = 1
     /\ ~IsDigitsKey(CallSegs[1]))
        => /\ res.err = ""
           /\ ValidJSON(res.buf)
           /\ Keys(Members(res.buf)) = <<CallSegs[1].part>>
           /\ IsNewValue(Members(res.buf)[1].raw)

(***************************************************************************)
(* C10: the key -1 under a container that does not exist yet.              *)
(***************************************************************************)
\* C10: on a blank document the key -1 after a member key creates an array
\* with the value as its one element: Set("", "arr.-1", 1) is {"arr":[1]}.
C10_AppendKeyCreatesAnArray ==
    (/\ Called
     /\ WellFormedPath(call.path)
     /\ Blank(json)
     /\ Len(CallSegs) = 2
     /\ ~IsDigitsKey(CallSegs[1])
     /\ ~HasEscape(call.path)
     /\ IsAppendKey(CallSegs[2]))
        => res = Done("{" \o "\"" \o CallSegs[1].part \o "\":[" \o NewText \o "]}")

(***************************************************************************)
(* C11: a key that is not located in a document that is neither blank nor  *)
(* an object nor an array.                                                 *)
(***************************************************************************)
\* The first byte of s that is not whitespace is neither a brace nor a
\* bracket.
IsScalarText(s) ==
    /\ SkipSpace(s, 0) < Len(s)
    /\ At(s, SkipSpace(s, 0)) \notin {"{", "["}

\* The segments before CallSegs[j] are located and lead to a text that is
\* not a container, in which CallSegs[j] is not located.
ScalarCase(j) ==
    /\ Called
    /\ WellFormedPath(call.path)
    /\ Target(j).found
    /\ IsScalarText(Target(j).raw)
    /\ ~Found(Target(j).raw, <<CallSegs[j]>>, 0).found

\* C11: a call with a segment that is not located, at a level where the
\* document is not blank and starts with neither a brace nor a bracket,
\* fails with "json must be an object or array" and returns no document;
\* so path a.b on {"a":1}, path 0.a on [null] and any path on the root 1.
C11_ScalarLevelIsRefused ==
    /\ \A j \in 1..Len(CallSegs) :
           ScalarCase(j) => res = Failed(ErrNotObjectOrArray)
    /\ (Called /\ json = "{\"a\":1}" /\ call.path = "a.b")
           => res = Failed(ErrNotObjectOrArray)
    /\ (Called /\ json = "[null]" /\ call.path = "0.a")
           => res = Failed(ErrNotObjectOrArray)
    /\ (Called /\ json = "1" /\ WellFormedPath(call.path))
           => res = Failed(ErrNotObjectOrArray)

(***************************************************************************)
(* C12: a key that is not numeric at an existing array.                    *)
(***************************************************************************)
\* The first byte of s that is not whitespace is a bracket.
IsArrayText(s) ==
    /\ SkipSpace(s, 0) < Len(s)
    /\ At(s, SkipSpace(s, 0)) = "["

\* The segments before CallSegs[j] are located and lead to an array, in
\* which CallSegs[j] is not located.
ArrayMissCase(j) ==
    /\ Called
    /\ WellFormedPath(call.path)
    /\ Target(j).found
    /\ IsArrayText(Target(j).raw)
    /\ ~Found(Target(j).raw, <<CallSegs[j]>>, 0).found

\* C12 as stated: a key that is not located in an array, is not an unforced
\* non-negative integer and is not the unforced text -1 fails with "array
\* key must be numeric" and returns no document.
C12_AsStated ==
    \A j \in 1..Len(CallSegs) :
        (/\ ArrayMissCase(j)
         /\ ~IsIndexKey(CallSegs[j])
         /\ ~IsAppendKey(CallSegs[j]))
            => res = Failed(ErrArrayKey)

(***************************************************************************)
(* C13: the functions on text and the functions on buffers.                *)
(***************************************************************************)
\* The same bytes and the same error.
SameOutcome(text, buffer) ==
    /\ text.buf = toString(buffer.buf)
    /\ text.err = buffer.err

Inserted(buf) ==
    IF At(buf, 0) = "[" THEN Slice(buf, 1, Len(buf) - 1)
    ELSE Slice(buf, 5, Len(buf) - 1)

\* buf holds text as its one element or member, under the key of the call.
HoldsOnly(buf, text) ==
    \/ buf = "[" \o text \o "]"
    \/ buf = "{\"" \o call.path \o "\":" \o text \o "}"

\* text is the number n in decimal digits: a minus sign for a negative n,
\* no other sign and no leading zero.
RECURSIVE DigitsOf(_, _)
DigitsOf(text, n) ==
    /\ text # ""
    /\ IsDigit(At(text, Len(text) - 1))
    /\ ByteCode[At(text, Len(text) - 1)] - 48 = n % 10
    /\ IF n < 10 THEN Len(text) = 1
       ELSE DigitsOf(Slice(text, 0, Len(text) - 1), n \div 10)

IsDecimalOf(text, n) ==
    IF n < 0 THEN text # "" /\ At(text, 0) = "-" /\ DigitsOf(From(text, 1), -n)
    ELSE DigitsOf(text, n)

IsQuoted(text) ==
    Len(text) >= 2 /\ At(text, 0) = "\"" /\ At(text, Len(text) - 1) = "\""

\* text is what the value of the call has to be written as.
IsCoerced(text) ==
    IF call.op = "SetRaw" THEN text = call.value.s
    ELSE IF call.value.type \in {"string", "bytes"}
         THEN /\ IsQuoted(text)
              /\ ValidJSON(text) => DecodeString(text) = call.value.s
    ELSE IF call.value.type = "bool"
         THEN text = (IF call.value.b THEN "true" ELSE "false")
    ELSE IF call.value.type = "nil" THEN text = "null"
    ELSE IsDecimalOf(text, call.value.n)

\* A call that creates the one element or member of a document.
CoerceCase ==
    /\ Called
    /\ \/ Blank(json)
       \/ json = "[]" /\ call.path = "0"
       \/ json = "{}"

NamedForRead(doc, seg) ==
    IF IsArray(doc) /\ ~seg.force /\ seg.part = ""
    THEN NamedElement(Elements(doc), 0)
    ELSE Named(doc, seg)

\* The text of the value that the segments segs name in doc; the empty
\* text when they name none.
RECURSIVE Read(_, _)

ReadIn(hit, segs) == IF ~hit.found THEN "" ELSE Read(hit.raw, Tail(segs))

Read(doc, segs) ==
    IF segs = <<>> THEN doc ELSE ReadIn(NamedForRead(doc, segs[1]), segs)

\* A successful SetRaw of a well-formed value in a blank or well-formed
\* document.
RoundTripCase ==
    /\ call.op = "SetRaw"
    /\ res.err = ""
    /\ Blank(json) \/ ValidJSON(json)
    /\ ValidJSON(call.value.s)

\* C15: after a successful SetRaw of a well-formed raw value in a blank or
\* well-formed document, also one that earlier calls returned, the value
\* read back from the result at the path of the call is the raw value, byte
\* for byte; the read is that of the path as the engine parses it, or the
\* lookup of the gjson library with the same path.
C15_SetRawReadsBack ==
    RoundTripCase =>
        \/ Read(res.buf, CallSegs) = call.value.s
        \/ gjsonGet(res.buf, call.path).Raw = call.value.s

(***************************************************************************)
(* C16: setting the same value twice.                                      *)
(***************************************************************************)
\* C16: when Set succeeds, Set of the same value at the same path in the
\* document it returned returns that document again, byte for byte.
C16_SetTwiceIsSetOnce ==
    (call.op = "Set" /\ res.err = "")
        => Set(res.buf, call.path, call.value) = Done(res.buf)

(***************************************************************************)
(* C17: the document of the caller, and the result of a failed call.       *)
(***************************************************************************)
\* A step that is a call of one of the four functions.
IsCallStep == call.op = "none" /\ call'.op # "none"

\* No document is returned: the empty text, or a nil buffer.
NoDocument(op, buf) ==
    IF op \in {"Set", "SetRaw"} THEN buf = "" ELSE buf = nilBytes

\* The error that set has for the call c of the document: that of the path
\* or that of the splice engine; the empty text when it has none.
ErrorOf(c) ==
    IF c.op \in {"SetRaw", "SetRawBytes"} THEN set(json, c.path, c.value.s, FALSE).err
    ELSE setCoerced(json, c.path, coerce(c.value)).err

\* C17: a call of Set, SetRaw, SetBytes or SetRawBytes leaves the bytes of
\* the caller's document as they were, whether it succeeds or fails, and on
\* an error the call returns that error and no document with it, never a
\* part of the document it was building.
C17_CallLeavesInputAndFailsWhole ==
    [][IsCallStep => /\ json' = json
                     /\ res'.err = ErrorOf(call')
                     /\ res'.err # "" => NoDocument(call'.op, res'.buf)]_vars

(***************************************************************************)
(* C18: SetRaw on a document that is not JSON.                             *)
(***************************************************************************)
\* C18: SetRaw with a path that parses, on any bytes as the document,
\* returns a document or one of the errors of the engine and never ends in
\* a panic for a slice or index out of range, and the calls of the engine
\* and of the fragment builder are at most as deep as the path has
\* segments.
C18_SetRawNeverPanicsAndDepthIsBounded ==
    (call.op = "SetRaw" /\ WellFormedPath(call.path)) =>
        /\ res.err \in {"", ErrNotObjectOrArray, ErrArrayKey}
        /\ res.err # "" => res.buf = ""
        /\ res.err = "" => res.buf # ""
        /\ appendRawPathsDepth(json, parsePaths(call.path).paths) <= Len(CallSegs)
        /\ appendBuildDepth(parsePaths(call.path).paths) <= Len(CallSegs)

\* A call on a truncated document whose located value ends at the end of
\* the document, with one more segment to descend with.
C18_Witness ==
    /\ call.op = "SetRaw"
    /\ json = "{\"a\":[1,2"
    /\ Len(CallSegs) = 2
    /\ ~ValidJSON(json)
    /\ gjsonGet(json, CallSegs[1].part).Index > 0
    /\ afterValue(gjsonGet(json, CallSegs[1].part)) = Len(json)
    /\ appendRawPathsDepth(json, parsePaths(call.path).paths) = 2
    /\ res.err = ""

(***************************************************************************)
(* C19: well-formedness is preserved.                                      *)
(***************************************************************************)
\* Every key of the path is made of letters and digits, at least one.
IsPlainKey(seg) ==
    /\ ~seg.force
    /\ seg.part # ""
    /\ \A i \in 0..(Len(seg.part) - 1) :
           /\ ByteCode[At(seg.part, i)] >= 48
           /\ ByteCode[At(seg.part, i)] <= 122
           /\ At(seg.part, i) \notin {":", ";", "<", "=", ">", "?", "@", "[", "\\", "]", "^", "_"}

IsPlainPath(path) ==
    /\ path # ""
    /\ ~HasEscape(path)
    /\ \A j \in 1..Len(Segments(path)) : IsPlainKey(Segments(path)[j])

\* The value in v, without the whitespace around it.
ValueText(v) == Slice(v, SkipSpace(v, 0), ValueEnd(v, SkipSpace(v, 0)))

\* A successful SetRaw with plain keys and a well-formed value.
PlainCase ==
    /\ call.op = "SetRaw"
    /\ res.err = ""
    /\ IsPlainPath(call.path)
    /\ ValidJSON(call.value.s)

\* C19: from a blank or well-formed document, after any sequence of
\* successful SetRaw calls with well-formed values and keys of letters and
\* digits, the document is well-formed JSON, also when the document or the
\* value has whitespace or newlines around the root container and between
\* members, and the value set last is read back at its path.
C19_PlainSetRawKeepsWellFormed ==
    /\ Blank(json) \/ ValidJSON(json)
    /\ PlainCase =>
           /\ ValidJSON(res.buf)
           /\ Read(res.buf, CallSegs) = ValueText(call.value.s)

\* A value with whitespace around it set as the second member of the
\* document that an earlier call returned.
C19_Witness ==
    /\ PlainCase
    /\ json = "{\"a\":1}"
    /\ call.path = "b"
    /\ Len(call.value.s) > Len(ValueText(call.value.s))
    /\ Len(Members(res.buf)) = 2
    /\ ValidJSON(res.buf)

(***************************************************************************)
(* C20: Delete removes exactly the member or element the path names.       *)
(***************************************************************************)
\* The members of an object or the elements of an array.
Items(c) == IF IsObject(c) THEN Members(c) ELSE Elements(c)

\* The position in ms of the first member with the key, 0 when there is none.
MemberAt(ms, key) ==
    IF \E i \in 1..Len(ms) : ms[i].key = key
    THEN CHOOSE i \in 1..Len(ms) : ms[i].key = key /\ \A j \in 1..(i - 1) : ms[j].key # key
    ELSE 0

\* The position of the item that a segment names for Delete in the
\* container c: a member by its key, an element by its index, the last
\* element by the key -1; 0 when it names none.
NamedAt(c, seg) ==
    IF IsObject(c) THEN MemberAt(Members(c), seg.part)
    ELSE IF IsArray(c) /\ IsAppendKey(seg) THEN Len(Elements(c))
    ELSE IF IsArray(c) /\ IsIndexKey(seg) /\ IndexOf(seg) < Len(Elements(c))
         THEN IndexOf(seg) + 1
    ELSE 0

\* The container that holds what the path of the call names in doc.
DeleteParent(doc) == Locate(doc, Prefix(CallSegs, Len(CallSegs) - 1), 0)

\* items without the item at position k.
Without(items, k) ==
    [i \in 1..(Len(items) - 1) |-> IF i < k THEN items[i] ELSE items[i + 1]]

\* The same texts, and for members the same keys, in the same order.
SameItems(c, new, old) ==
    /\ Raws(new) = Raws(old)
    /\ IsObject(c) => Keys(new) = Keys(old)

\* s without its whitespace.
RECURSIVE Squeezed(_)
Squeezed(s) ==
    IF s = "" THEN ""
    ELSE IF IsSpace(At(s, 0)) THEN Squeezed(From(s, 1))
    ELSE At(s, 0) \o Squeezed(From(s, 1))

\* A successful Delete of a member or element of a well-formed document.
DeleteCase ==
    /\ call.op = "Delete"
    /\ res.err = ""
    /\ call.path # ""
    /\ ValidJSON(json)
    /\ DeleteParent(json).found
    /\ NamedAt(DeleteParent(json).raw, CallSegs[Len(CallSegs)]) > 0

\* The container p became q by losing its item at position k and nothing
\* else: the document around the container is unchanged, the siblings keep
\* their text and order, and the commas are those of well-formed JSON, one
\* between two neighbours and none after the opening bracket or before the
\* closing one; a container that lost its only item is {} or [].
RemovedOnly(p, q, k) ==
    /\ q.found
    /\ q.off = p.off
    /\ res.buf = Slice(json, 0, p.off) \o q.raw \o From(json, p.off + Len(p.raw))
    /\ SameItems(p.raw, Items(q.raw), Without(Items(p.raw), k))
    /\ ValidJSON(res.buf)
    /\ Len(Items(p.raw)) = 1 => Squeezed(q.raw) \in {"{}", "[]"}

\* The read at the path of the call finds nothing in the result.
ReadsAbsent == ~Locate(res.buf, CallSegs, 0).found

\* The read at the path of the call finds the text in the result.
ReadsText(text) ==
    /\ Locate(res.buf, CallSegs, 0).found
    /\ Locate(res.buf, CallSegs, 0).raw = text

\* The statement of C20 as it was written: the read at the deleted path
\* reports absent after every Delete of an existing member or element.
C20_AsStated ==
    DeleteCase =>
        /\ RemovedOnly(DeleteParent(json), DeleteParent(res.buf),
                       NamedAt(DeleteParent(json).raw, CallSegs[Len(CallSegs)]))
        /\ ReadsAbsent

\* What the read at the path finds after the item at position k of items
\* was removed: nothing after the last element of an array or a member
\* whose key no later member repeats; otherwise the element that followed
\* the removed one, or the next member with the same key.
ReadsNext(c, seg, items, k) ==
    IF IsArray(c)
    THEN IF k = Len(items) THEN ReadsAbsent ELSE ReadsText(items[k + 1].raw)
    ELSE IF MemberAt(Without(items, k), seg.part) = 0 THEN ReadsAbsent
    ELSE ReadsText(Without(items, k)[MemberAt(Without(items, k), seg.part)].raw)

\* C20: Delete of an existing member or element of a well-formed document
\* removes exactly that one: the siblings keep their raw text and order,
\* exactly one comma remains between the new neighbours, no leading or
\* dangling comma is left whether the removed one was first, middle or
\* last, and deleting the sole member yields {} or []. A read at the
\* deleted path then reports absent after the last element of an array or
\* a member whose key is not repeated; after an element that was not the
\* last it finds the element that followed.
C20_DeleteRemovesExactlyOne ==
    DeleteCase =>
        /\ RemovedOnly(DeleteParent(json), DeleteParent(res.buf),
                       NamedAt(DeleteParent(json).raw, CallSegs[Len(CallSegs)]))
        /\ ReadsNext(DeleteParent(json).raw, CallSegs[Len(CallSegs)],
                     Items(DeleteParent(json).raw),
                     NamedAt(DeleteParent(json).raw, CallSegs[Len(CallSegs)]))

\* The middle element of three is deleted: one comma is left between its
\* neighbours and the read at its index finds the element that followed.
C20_Witness ==
    /\ DeleteCase
    /\ json = "[123,456,789]"
    /\ call.path = "1"
    /\ res.buf = "[123,789]"
    /\ ReadsText("789")

(***************************************************************************)
(* C21: a member that the lookup does not locate in an existing object.    *)
(***************************************************************************)
\* The segments before CallSegs[j] are located and lead to an object in
\* which the lookup locates nothing for CallSegs[j].
ObjectMissCase(j) ==
    /\ Called
    /\ WellFormedPath(call.path)
    /\ ValidJSON(json)
    /\ Target(j).found
    /\ IsObject(Target(j).raw)
    /\ gjsonGet(Target(j).raw, CallSegs[j].part).Index = 0

\* The member built for CallSegs[j]: its key, a colon and what is built for
\* the segments after it.
MemberText(j) == appendStringify("", CallSegs[j].part) \o ":" \o Fragment(j)

\* The comma between the new member and the members the object has.
MemberComma(v) == IF Members(v) # <<>> THEN "," ELSE ""

\* The object in v from its opening brace on, and the bytes of v after the
\* opening brace.
ObjectFrom(v) == From(v, SkipSpace(v, 0))

ObjectRest(v) == From(v, SkipSpace(v, 0) + 1)

\* The object v with the member as its last one: before the closing brace.
InsertedLast(v, member) ==
    Slice(ObjectFrom(v), 0, ValueEnd(ObjectFrom(v), 0) - 1)
        \o MemberComma(v) \o member
        \o From(ObjectFrom(v), ValueEnd(ObjectFrom(v), 0) - 1)

\* The object v with the member as its first one: after the opening brace.
InsertedFirst(v, member) == "{" \o member \o MemberComma(v) \o ObjectRest(v)

RECURSIVE ReservedIn(_, _)
ReservedIn(s, i) ==
    IF i >= Len(s) THEN 0
    ELSE (IF At(s, i) \in Reserved THEN 1 ELSE 0) + ReservedIn(s, i + 1)

\* The number of bytes # * ? in the keys of the segments.
RECURSIVE ReservedInKeys(_)
ReservedInKeys(segs) ==
    IF segs = <<>> THEN 0 ELSE ReservedIn(segs[1].part, 0) + ReservedInKeys(Tail(segs))

\* The number of bytes # * ? of path, from offset i on, that stand right
\* after an escaping backslash.
RECURSIVE EscapedReserved(_, _)
EscapedReserved(path, i) ==
    IF i >= Len(path) THEN 0
    ELSE IF At(path, i) # "\\" THEN EscapedReserved(path, i + 1)
    ELSE IF i + 1 < Len(path) /\ At(path, i + 1) \in Reserved
         THEN 1 + EscapedReserved(path, i + 2)
    ELSE EscapedReserved(path, i + 2)

\* A path was parsed.
ParseCase == call.op = "parsePath"

\* The statement of C22 as it was written: after a successful parse no key
\* holds a byte # * or ?.
C22_AsStated ==
    (ParseCase /\ res.err = "") => ReservedInKeys(res.paths) = 0

\* C22: a parse succeeds exactly when the path has no byte # * or ? that no
\* backslash escapes, and then the keys hold such a byte only where the
\* path has it right after a backslash: as many as the path escapes, in
\* the keys that the path syntax gives.
C22_KeysHoldOnlyEscapedReservedBytes ==
    ParseCase =>
        /\ res.err = "" <=> FirstReserved(call.path, 0) = ""
        /\ res.err = "" =>
               /\ KeysOf(res.paths) = Segments(call.path)
               /\ ReservedInKeys(res.paths) = EscapedReserved(call.path, 0)

\* The path a\# parses to the one key a#.
C22_Witness ==
    /\ ParseCase
    /\ call.path = "a\\#"
    /\ res.err = ""
    /\ KeysOf(res.paths) = <<[part |-> "a#", force |-> FALSE]>>

(***************************************************************************)
(* C23: an empty segment without a leading colon.                          *)
(***************************************************************************)
IsEmptySeg(seg) == seg.part = "" /\ ~seg.force

\* The path with 0 written for every empty segment, read from the start i
\* of a segment; PathSegment copies the segment that starts before i.
RECURSIVE ZeroFilled(_, _)
RECURSIVE PathSegment(_, _)

PathSegment(path, i) ==
    IF i >= Len(path) THEN ""
    ELSE IF At(path, i) = "." THEN "." \o ZeroFilled(path, i + 1)
    ELSE At(path, i) \o PathSegment(path, i + 1)

ZeroFilled(path, i) ==
    IF i >= Len(path) THEN "0"
    ELSE IF At(path, i) = "." THEN "0." \o ZeroFilled(path, i + 1)
    ELSE PathSegment(path, i)

\* A SetRaw whose path has an empty segment without a leading colon.
EmptySegCall ==
    /\ call.op = "SetRaw"
    /\ WellFormedPath(call.path)
    /\ ~HasEscape(call.path)
    /\ Blank(json) \/ ValidJSON(json)
    /\ \E j \in 1..Len(CallSegs) : IsEmptySeg(CallSegs[j])

\* The statement of C23 as it was written: an empty segment without a
\* leading colon is the array index 0, so the call returns what the call
\* with 0 in the place of every empty segment returns.
C23_AsStated ==
    EmptySegCall => res = SetRaw(json, ZeroFilled(call.path, 0), call.value.s)

\* The segments before the empty segment CallSegs[j] are located and lead
\* to a blank document, an array or an object.
EmptySegCase(j) ==
    /\ Called
    /\ WellFormedPath(call.path)
    /\ Blank(json) \/ ValidJSON(json)
    /\ IsEmptySeg(CallSegs[j])
    /\ Target(j).found

\* C23: an empty path segment (from a leading, trailing or doubled dot)
\* that has no leading colon counts as the index 0 where the engine builds
\* the container for it: on a blank document and in a built fragment the
\* container is an array and the value its element 0, so on a blank
\* document SetRaw with path a. yields {"a":[v]} and with path . yields
\* [[v]]. At an existing array it locates no element: the array keeps its
\* elements and gets the value as one more element after them, which is
\* element 0 only when the array was empty. At an existing object it
\* is the empty member key: when no member has that key, a member with the
\* key "" is inserted first. No error is reported for the empty segment.
C23_EmptySegmentIsIndexZeroWhereBuilt ==
    /\ \A j \in 1..Len(CallSegs) :
           EmptySegCase(j) =>
               IF Blank(Target(j).raw)
               THEN res = Done(Nesting(CallSegs, NewText, TRUE))
               ELSE IF IsArray(Target(j).raw)
               THEN res = Done(Spliced(Target(j),
                                       Padded(Elements(Target(j).raw),
                                              Len(Elements(Target(j).raw)),
                                              Fragment(j))))
               ELSE (IsObject(Target(j).raw) /\ gjsonGet(Target(j).raw, "").Index = 0)
                        => res = Done(Spliced(Target(j),
                                              InsertedFirst(Target(j).raw, MemberText(j))))
    /\ (call.op = "SetRaw" /\ Blank(json) /\ call.path = "a.")
           => res = Done("{\"a\":[" \o call.value.s \o "]}")
    /\ (call.op = "SetRaw" /\ Blank(json) /\ call.path = ".")
           => res = Done("[[" \o call.value.s \o "]]")

\* An empty first segment at an array of two elements: the call succeeds,
\* the two elements stay and the array has a third.
C23_Witness ==
    /\ EmptySegCase(1)
    /\ call.op = "SetRaw"
    /\ IsArray(json)
    /\ Len(Elements(json)) = 2
    /\ res.err = ""
    /\ Len(Elements(res.buf)) = 3
    /\ Raws(SubSeq(Elements(res.buf), 1, 2)) = Raws(Elements(json))

=============================================================================
